---- MODULE Spec2Model ----
(***************************************************************************)
(* State-machine model of the ChiCrypt relay server (app.py, database.py, *)
(* utils.py): registration, challenge issuance, the two authentication    *)
(* methods of the authenticated endpoints, the permission ledger and the   *)
(* message store.                                                          *)
(*                                                                         *)
(* Every handler is a process: its first step validates the request body  *)
(* and runs the first SQL statement, and every later step runs exactly one *)
(* SQL statement (the connection is autocommit, so a statement is the unit *)
(* of atomicity).  Time is the MySQL clock NOW() in whole seconds.         *)
(*                                                                         *)
(* Opaque random strings are modelled by fresh integers:                   *)
(*   link token of the n-th client      = n                                *)
(*   fetch token of the n-th client     = 10 * n                           *)
(*   nonce of the challenge with id c   = c                                *)
(*   0 is None / absent / empty (falsy in Python), -1 is a string the      *)
(*   server never issued.                                                  *)
(***************************************************************************)
EXTENDS Integers, Sequences, FiniteSets, TLC

\* ------------------------------------------------------------ bounds
MaxChallenges == 2
MaxCrossClients == 2
MaxCrossChallenges == 1
MaxConcClients == 1
MaxConcChallenges == 1
MaxRateChallenges == 6
MaxPermRequests == 1
MaxPermMessages == 1
MaxTime == 3
MaxRateTime == 15
MaxLedgerRequests == 3
MaxPendingRequests == 2
MaxPendingTime == 1
MaxStoreMessages == 2
MaxFetchMessages == 3
MaxMailboxMessages == 2
MaxOutageRows == 1
MaxOracleChallenges == 1
MaxGateRows == 1
MaxSendMessages == 2
MaxSendRequests == 1
MaxFaultChallenges == 3
MaxFaultTime == 3
MaxBurstChallenges == 7
MaxBurstTime == 9
MaxRaceRequests == 2
MaxRetryChallenges == 2
MaxRetryRequests == 1
MaxRetryTime == 3
MaxQuietChallenges == 6
MaxQuietTime == 12

\* ------------------------------------------------- program constants
MaxOutstanding == 5
CooldownSeconds == 3
ExpiresInSeconds == 300

Procs == {1, 2}
SeqProcs == {1}

None == 0
Bogus == -1

VARIABLES
    connected,          \* Database.connected
    now,                \* MySQL NOW(), seconds
    clients,            \* table clients
    challenges,         \* table challenges
    challengeSeq,       \* AUTO_INCREMENT of challenges (rows are deleted)
    message_requests,   \* table message_requests
    messages,           \* table messages
    pc,                 \* per request: the statement it runs next
    req,                \* per request: the JSON body and headers
    loc,                \* per request: the handler's local variables
    resp,               \* per request: the HTTP response
    consumed,           \* history: <<link_token, nonce>> pairs that authenticated and were marked used
    issued              \* history: every challenge row as it was inserted

vars == <<connected, now, clients, challenges, challengeSeq, message_requests,
          messages, pc, req, loc, resp, consumed, issued>>

store == <<clients, challenges, challengeSeq, message_requests, messages>>

\* ------------------------------------------------------------ utils.py
\* generate_link_token, generate_fetch_token, generate_challenge_nonce: the n-th
\* draw of secrets.token_bytes, a string no earlier draw returned
\* Mutant: every draw returns the same link token
generate_link_token_Same(n) == 1

generate_link_token(n) == n
generate_fetch_token(n) == 10 * n
generate_challenge_nonce(n) == n

\* hash_token: sha256 hex digest, an injective map into a separate domain
hash_token(token) == <<"sha256", token>>

\* An Ed25519 signature made with the private key of public key `key` over `msg`
Sign(key, msg) == [key |-> key, msg |-> msg]
NoSig == [key |-> None, msg |-> None]

Keys == {1, 2}
InvalidKey == 0

validate_public_key(public_key) == public_key \in Keys

verify_signature(public_key, message, signature) ==
    /\ public_key \in Keys
    /\ signature.key = public_key
    /\ signature.msg = message

\* ------------------------------------------------------------ responses
Resp(status, error) == [status |-> status, error |-> error, data |-> None]
RespData(status, message, data) == [status |-> status, error |-> message, data |-> data]
NoResp == Resp(0, "")

\* A base64 text: the number of its base64 characters (b64decode drops any other),
\* how many of the last ones are '=' padding, and whether b64decode accepts it
\* (whole groups of four, correct padding) or raises
NoText == [chars |-> 0, pad |-> 0, valid |-> TRUE]

NoReq == [ep |-> "none", link_token |-> None, challenge |-> None,
          challenge_signature |-> NoSig, bearer |-> None,
          message_ids |-> {}, request_id |-> None, action |-> "",
          from_link_token |-> None, public_key |-> None, key_type |-> "",
          encrypted_message |-> NoText, metadata_len |-> 0,
          include_seen |-> FALSE, limit |-> 0, before_id |-> None,
          since_id |-> None, order |-> ""]

\* client, challenge, authenticated, cnt, age: the handler's variables of that name
\* (age is -1 when the query returns no row); request_status: request_info['status'];
\* method: the branch of the authentication block the request takes;
\* history: replay (the pair <<link_token, challenge>> had been consumed when the
\* request arrived), looked_at (NOW() of the challenge lookup), recent (the
\* cooldown condition held when the outstanding count was read), failed (a
\* statement of the request raised)
NoLoc == [client |-> None, challenge |-> None, authenticated |-> FALSE,
          cnt |-> 0, age |-> -1, request_status |-> "",
          method |-> "none", replay |-> FALSE, looked_at |-> 0, recent |-> FALSE,
          failed |-> FALSE]

\* ------------------------------------------------------------ database.py reads
\* get_client_by_link_token: the row, or None
ClientRows(link_token) == {c \in clients : c.link_token = link_token}

get_client_by_link_token(link_token) ==
    IF connected /\ ClientRows(link_token) # {}
    THEN (CHOOSE c \in ClientRows(link_token) : TRUE).id
    ELSE None

ClientById(id) == CHOOSE c \in clients : c.id = id

Registered == {c.link_token : c \in clients}

\* Mutant: the stored hash is looked up by the token alone, not by link_token
verify_fetch_token_AnyClient(link_token, fetch_token) ==
    connected /\ \E c \in clients : c.fetch_token_hash = hash_token(fetch_token)

\* verify_fetch_token
verify_fetch_token(link_token, fetch_token) ==
    IF ~connected THEN FALSE
    ELSE IF ClientRows(link_token) = {} THEN FALSE
    ELSE (CHOOSE c \in ClientRows(link_token) : TRUE).fetch_token_hash = hash_token(fetch_token)

\* Mutant: the lookup forgets `link_token = %s`
ValidChallenges_AnyLink(link_token, challenge_nonce) ==
    {c \in challenges : /\ c.challenge_nonce = challenge_nonce
                        /\ c.expires_at > now
                        /\ c.used = FALSE}

\* Mutant: the lookup forgets `AND used = FALSE`
ValidChallenges_AnyUse(link_token, challenge_nonce) ==
    {c \in challenges : /\ c.link_token = link_token
                        /\ c.challenge_nonce = challenge_nonce
                        /\ c.expires_at > now}

\* Mutant: the lookup forgets `AND expires_at > NOW()`
ValidChallenges_NoExpiry(link_token, challenge_nonce) ==
    {c \in challenges : /\ c.link_token = link_token
                        /\ c.challenge_nonce = challenge_nonce
                        /\ c.used = FALSE}

\* get_challenge: WHERE link_token AND nonce AND expires_at > NOW() AND used = FALSE
\*                ORDER BY created_at DESC LIMIT 1
ValidChallenges(link_token, challenge_nonce) ==
    {c \in challenges : /\ c.link_token = link_token
                        /\ c.challenge_nonce = challenge_nonce
                        /\ c.expires_at > now
                        /\ c.used = FALSE}

get_challenge(link_token, challenge_nonce) ==
    IF connected /\ ValidChallenges(link_token, challenge_nonce) # {}
    THEN (CHOOSE c \in ValidChallenges(link_token, challenge_nonce) :
            \A d \in ValidChallenges(link_token, challenge_nonce) : d.created_at <= c.created_at).id
    ELSE None

\* Mutant: the count takes every unused challenge, expired or not
Outstanding_CountsExpired(link_token) ==
    {c \in challenges : c.link_token = link_token /\ c.used = FALSE}

\* SELECT COUNT(*) FROM challenges WHERE link_token AND used=FALSE AND expires_at>NOW()
Outstanding(link_token) ==
    {c \in challenges : c.link_token = link_token /\ c.used = FALSE /\ c.expires_at > now}

\* SELECT TIMESTAMPDIFF(SECOND, created_at, NOW()) ... ORDER BY created_at DESC LIMIT 1
ChallengesOf(link_token) == {c \in challenges : c.link_token = link_token}

LatestAge(link_token) ==
    LET rows == ChallengesOf(link_token)
        latest == CHOOSE c \in rows : \A d \in rows : d.created_at <= c.created_at
    IN  now - latest.created_at

\* Mutant: an accepted request between the two identities is found whichever way
\* it points
check_message_permission_EitherWay(from_link_token, to_link_token) ==
    /\ connected
    /\ \E r \in message_requests :
          /\ {r.from_link_token, r.to_link_token} = {from_link_token, to_link_token}
          /\ r.status = "accepted"

\* check_message_permission
check_message_permission(from_link_token, to_link_token) ==
    /\ connected
    /\ \E r \in message_requests : /\ r.from_link_token = from_link_token
                                   /\ r.to_link_token = to_link_token
                                   /\ r.status = "accepted"

\* get_request_by_id
RequestRows(request_id) == {r \in message_requests : r.id = request_id}

\* ------------------------------------------------------------ initial state
Init ==
    /\ connected \in BOOLEAN
    /\ now = 0
    /\ clients = {}
    /\ challenges = {}
    /\ challengeSeq = 0
    /\ message_requests = {}
    /\ messages = {}
    /\ pc = [p \in Procs |-> "idle"]
    /\ req = [p \in Procs |-> NoReq]
    /\ loc = [p \in Procs |-> NoLoc]
    /\ resp = [p \in Procs |-> NoResp]
    /\ consumed = {}
    /\ issued = {}

Free(p) == pc[p] = "idle"

\* A handler returns: the response is set and the request is over
Return(p, r) ==
    /\ pc' = [pc EXCEPT ![p] = "done"]
    /\ resp' = [resp EXCEPT ![p] = r]

\* A handler goes on to its next statement; it has not answered yet
Goto(p, label) ==
    /\ pc' = [pc EXCEPT ![p] = label]
    /\ resp' = [resp EXCEPT ![p] = NoResp]

Begin(p, request) ==
    /\ Free(p)
    /\ req' = [req EXCEPT ![p] = request]

\* The response has been delivered: the request's slot is free again
Close(p) ==
    /\ pc[p] = "done"
    /\ pc' = [pc EXCEPT ![p] = "idle"]
    /\ req' = [req EXCEPT ![p] = NoReq]
    /\ loc' = [loc EXCEPT ![p] = NoLoc]
    /\ resp' = [resp EXCEPT ![p] = NoResp]
    /\ UNCHANGED <<connected, now, store, consumed, issued>>

\* ------------------------------------------------------------ the clock
ElapseSeconds == ExpiresInSeconds

Tick(limit) ==
    /\ now % ElapseSeconds < limit
    /\ now' = now + 1
    /\ UNCHANGED <<connected, store, pc, req, loc, resp, consumed, issued>>

\* A long quiet period: the lifetime of a challenge passes with no request in flight
Elapse ==
    /\ now < ElapseSeconds
    /\ \A p \in Procs : pc[p] = "idle"
    /\ now' = now + ElapseSeconds
    /\ UNCHANGED <<connected, store, pc, req, loc, resp, consumed, issued>>

\* ------------------------------------------------------------ POST /register
\* Mutant: a public key that is registered already is refused
register_Dedup(p, public_key, key_type, limit) ==
    /\ Begin(p, [NoReq EXCEPT !.ep = "register", !.public_key = public_key,
                              !.key_type = key_type])
    /\ loc' = [loc EXCEPT ![p] = NoLoc]
    /\ IF key_type # "ed25519"
       THEN /\ Return(p, Resp(400, "Unsupported key_type. Only ed25519 is supported."))
            /\ UNCHANGED clients
       ELSE IF ~validate_public_key(public_key)
       THEN /\ Return(p, Resp(400, "Invalid public key format"))
            /\ UNCHANGED clients
       ELSE IF ~connected
       THEN /\ Return(p, Resp(500, "Database connection not available"))
            /\ UNCHANGED clients
       ELSE IF \E c \in clients : c.public_key = public_key
       THEN /\ Return(p, Resp(500, "Duplicate entry"))
            /\ UNCHANGED clients
       ELSE /\ Cardinality(clients) < limit
            /\ LET n == Cardinality(clients) + 1
               IN
               /\ clients' = clients \cup
                       {[id |-> n, link_token |-> generate_link_token(n),
                         public_key |-> public_key, key_type |-> key_type,
                         fetch_token_hash |-> hash_token(generate_fetch_token(n))]}
               /\ Return(p, RespData(201, "Client registered successfully",
                                     generate_fetch_token(n)))
    /\ UNCHANGED <<connected, now, challenges, challengeSeq, message_requests,
                   messages, consumed, issued>>

register(p, public_key, key_type, limit) ==
    /\ Begin(p, [NoReq EXCEPT !.ep = "register", !.public_key = public_key,
                              !.key_type = key_type])
    /\ loc' = [loc EXCEPT ![p] = NoLoc]
    /\ IF key_type # "ed25519"
       THEN /\ Return(p, Resp(400, "Unsupported key_type. Only ed25519 is supported."))
            /\ UNCHANGED clients
       ELSE IF ~validate_public_key(public_key)
       THEN /\ Return(p, Resp(400, "Invalid public key format"))
            /\ UNCHANGED clients
       ELSE IF ~connected
       THEN /\ Return(p, Resp(500, "Database connection not available"))
            /\ UNCHANGED clients
       ELSE /\ Cardinality(clients) < limit
            /\ LET n == Cardinality(clients) + 1
               IN
               /\ clients' = clients \cup
                       {[id |-> n, link_token |-> generate_link_token(n),
                         public_key |-> public_key, key_type |-> key_type,
                         fetch_token_hash |-> hash_token(generate_fetch_token(n))]}
               /\ Return(p, RespData(201, "Client registered successfully",
                                     generate_fetch_token(n)))
    /\ UNCHANGED <<connected, now, challenges, challengeSeq, message_requests,
                   messages, consumed, issued>>

\* ------------------------------------------------------------ POST /challenge_request
InChallengeRequest(q) == pc[q] \in {"cr_count", "cr_age", "cr_create", "cr_cleanup"}

challenge_request(p, link_token, limit) ==
    /\ challengeSeq + Cardinality({q \in Procs : InChallengeRequest(q)}) < limit
    /\ Begin(p, [NoReq EXCEPT !.ep = "challenge_request", !.link_token = link_token])
    /\ IF link_token = None
       THEN /\ Return(p, Resp(400, "link_token is required"))
            /\ loc' = [loc EXCEPT ![p] = NoLoc]
       ELSE IF get_client_by_link_token(link_token) = None
       THEN /\ Return(p, Resp(404, "Invalid link_token"))
            /\ loc' = [loc EXCEPT ![p] = NoLoc]
       ELSE /\ Goto(p, "cr_count")
            /\ loc' = [loc EXCEPT ![p] = [NoLoc EXCEPT !.client = get_client_by_link_token(link_token)]]
    /\ UNCHANGED <<connected, now, store, consumed, issued>>

\* Mutant: the cooldown is one second short
TooFrequent_Short(link_token) ==
    /\ ChallengesOf(link_token) # {}
    /\ LatestAge(link_token) < CooldownSeconds - 1

\* SELECT TIMESTAMPDIFF ... LIMIT 1 ; if age < 3: 429
TooFrequent(link_token) ==
    /\ ChallengesOf(link_token) # {}
    /\ LatestAge(link_token) < CooldownSeconds

\* Mutant: the cap is compared with > instead of >=
cr_count_OffByOne(p) ==
    /\ pc[p] = "cr_count"
    /\ loc' = [loc EXCEPT ![p].cnt = Cardinality(Outstanding(req[p].link_token)),
                           ![p].recent = TooFrequent(req[p].link_token)]
    /\ IF Cardinality(Outstanding(req[p].link_token)) > MaxOutstanding
       THEN Return(p, Resp(429, "Too many outstanding challenges"))
       ELSE Goto(p, "cr_age")
    /\ UNCHANGED <<connected, now, store, req, consumed, issued>>

\* SELECT COUNT(*) ... ; if row['cnt'] >= 5: 429
cr_count(p) ==
    /\ pc[p] = "cr_count"
    /\ loc' = [loc EXCEPT ![p].cnt = Cardinality(Outstanding(req[p].link_token)),
                           ![p].recent = TooFrequent(req[p].link_token)]
    /\ IF Cardinality(Outstanding(req[p].link_token)) >= MaxOutstanding
       THEN Return(p, Resp(429, "Too many outstanding challenges"))
       ELSE Goto(p, "cr_age")
    /\ UNCHANGED <<connected, now, store, req, consumed, issued>>

cr_age(p) ==
    /\ pc[p] = "cr_age"
    /\ loc' = [loc EXCEPT ![p].age = IF ChallengesOf(req[p].link_token) = {} THEN -1
                                      ELSE LatestAge(req[p].link_token)]
    /\ IF TooFrequent(req[p].link_token)
       THEN Return(p, Resp(429, "Challenge requested too frequently"))
       ELSE Goto(p, "cr_create")
    /\ UNCHANGED <<connected, now, store, req, consumed, issued>>

\* cursor.execute of the COUNT query raises (the connection dropped, a timeout):
\* `except Exception: pass` leaves the block, the cooldown query is not run
cr_count_raises(p) ==
    /\ pc[p] = "cr_count"
    /\ loc' = [loc EXCEPT ![p].failed = TRUE]
    /\ Goto(p, "cr_create")
    /\ UNCHANGED <<connected, now, store, req, consumed, issued>>

\* cursor.execute of the TIMESTAMPDIFF query raises: `except Exception: pass`
cr_age_raises(p) ==
    /\ pc[p] = "cr_age"
    /\ loc' = [loc EXCEPT ![p].failed = TRUE]
    /\ Goto(p, "cr_create")
    /\ UNCHANGED <<connected, now, store, req, consumed, issued>>

\* create_challenge raises (`raise e`): the handler's `except Exception` answers 500
cr_create_raises(p) ==
    /\ pc[p] = "cr_create"
    /\ loc' = [loc EXCEPT ![p].failed = TRUE]
    /\ Return(p, Resp(500, "create_challenge failed"))
    /\ UNCHANGED <<connected, now, store, req, consumed, issued>>

\* create_challenge: INSERT ... expires_at = DATE_ADD(NOW(), INTERVAL 300 SECOND)
NewChallenge(id, link_token) ==
    [id |-> id, link_token |-> link_token, challenge_nonce |-> generate_challenge_nonce(id),
     created_at |-> now, expires_at |-> now + ExpiresInSeconds, used |-> FALSE]

cr_create(p) ==
    /\ pc[p] = "cr_create"
    /\ challengeSeq' = challengeSeq + 1
    /\ challenges' = challenges \cup {NewChallenge(challengeSeq + 1, req[p].link_token)}
    /\ issued' = issued \cup {NewChallenge(challengeSeq + 1, req[p].link_token)}
    /\ loc' = [loc EXCEPT ![p].challenge = challengeSeq + 1]
    /\ Goto(p, "cr_cleanup")
    /\ UNCHANGED <<connected, now, clients, message_requests, messages, req, consumed>>

\* cleanup_old_challenges: DELETE FROM challenges WHERE expires_at < NOW()
Expired == {c \in challenges : c.expires_at < now}

cr_cleanup(p) ==
    /\ pc[p] = "cr_cleanup"
    /\ challenges' = challenges \ Expired
    /\ Return(p, RespData(200, "", generate_challenge_nonce(loc[p].challenge)))
    /\ UNCHANGED <<connected, now, clients, challengeSeq, message_requests, messages,
                   req, loc, consumed, issued>>

\* ------------------------------------------------------------ authentication
\* The block shared by /fetch, /ack, /get_message_requests, /respond_message_request
AuthEndpoints == {"fetch", "ack", "get_message_requests", "respond_message_request"}

\* The statement that follows a successful authentication
OpLabel(ep) ==
    CASE ep = "fetch" -> "fetch_get_messages"
      [] ep = "ack" -> "ack_mark_seen"
      [] ep = "get_message_requests" -> "get_pending_requests"
      [] ep = "respond_message_request" -> "respond_get_request"

\* The 401 of each failing factor: /fetch returns early with its own text, the
\* other three fall through to `if not authenticated`
AuthFailure(ep, factor) ==
    IF ep = "fetch"
    THEN CASE factor = "challenge" -> Resp(401, "Invalid or expired challenge")
           [] factor = "signature" -> Resp(401, "Invalid signature")
           [] factor = "token" -> Resp(401, "Invalid fetch_token")
           [] factor = "none" -> Resp(401, "Authentication required (challenge_signature or Authorization header)")
    ELSE Resp(401, "Authentication failed")

BodyError(request) ==
    CASE request.ep = "fetch" /\ request.link_token = None -> "link_token is required"
      [] request.ep = "ack" /\ request.link_token = None -> "link_token and message_ids are required"
      [] request.ep = "get_message_requests" /\ request.link_token = None -> "link_token is required"
      [] request.ep = "respond_message_request" /\ (request.link_token = None \/ request.request_id = None \/ request.action = "")
            -> "link_token, request_id, and action are required"
      [] request.ep = "respond_message_request" /\ request.action \notin {"accept", "reject"}
            -> "action must be \"accept\" or \"reject\""
      [] OTHER -> ""

\* Mutant: the Authorization header is looked at first
AuthMethod_TokenFirst(request) ==
    IF request.bearer # None THEN "token"
    ELSE IF request.challenge_signature # NoSig /\ request.challenge # None THEN "challenge"
    ELSE "none"

\* `if challenge_signature and challenge_nonce` / `elif auth_header ...` / else
AuthMethod(request) ==
    IF request.challenge_signature # NoSig /\ request.challenge # None THEN "challenge"
    ELSE IF request.bearer # None THEN "token"
    ELSE "none"

auth_begin(p, request) ==
    /\ request.ep \in AuthEndpoints
    /\ Begin(p, request)
    /\ LET client == get_client_by_link_token(request.link_token)
           replay == <<request.link_token, request.challenge>> \in consumed
       IN  IF BodyError(request) # ""
           THEN /\ Return(p, Resp(400, BodyError(request)))
                /\ loc' = [loc EXCEPT ![p] = [NoLoc EXCEPT !.replay = replay]]
           ELSE IF client = None
           THEN /\ Return(p, Resp(404, "Invalid link_token"))
                /\ loc' = [loc EXCEPT ![p] = [NoLoc EXCEPT !.replay = replay]]
           ELSE /\ loc' = [loc EXCEPT ![p] = [NoLoc EXCEPT !.client = client,
                                                !.method = AuthMethod(request),
                                                !.replay = replay]]
                /\ CASE AuthMethod(request) = "challenge" -> Goto(p, "auth_get_challenge")
                     [] AuthMethod(request) = "token" -> Goto(p, "auth_verify_token")
                     [] OTHER -> Return(p, AuthFailure(request.ep, "none"))
    /\ UNCHANGED <<connected, now, store, consumed, issued>>

\* Mutant: the challenge is marked used as soon as it is found, before the
\* signature is verified
auth_get_challenge_Burns(p) ==
    /\ pc[p] = "auth_get_challenge"
    /\ LET challenge == get_challenge(req[p].link_token, req[p].challenge)
       IN  IF challenge = None
           THEN /\ Return(p, AuthFailure(req[p].ep, "challenge"))
                /\ loc' = [loc EXCEPT ![p].looked_at = now]
                /\ UNCHANGED challenges
           ELSE /\ challenges' = {IF c.id = challenge THEN [c EXCEPT !.used = TRUE] ELSE c
                                  : c \in challenges}
                /\ IF verify_signature(ClientById(loc[p].client).public_key,
                                       req[p].challenge, req[p].challenge_signature)
                   THEN /\ loc' = [loc EXCEPT ![p].authenticated = TRUE,
                                              ![p].challenge = challenge,
                                              ![p].looked_at = now]
                        /\ Goto(p, "auth_mark_used")
                   ELSE /\ Return(p, AuthFailure(req[p].ep, "signature"))
                        /\ loc' = [loc EXCEPT ![p].challenge = challenge,
                                              ![p].looked_at = now]
    /\ UNCHANGED <<connected, now, clients, challengeSeq, message_requests, messages,
                   req, consumed, issued>>

\* challenge = db.get_challenge(...); verify_signature(client['public_key'], nonce, signature)
auth_get_challenge(p) ==
    /\ pc[p] = "auth_get_challenge"
    /\ LET challenge == get_challenge(req[p].link_token, req[p].challenge)
       IN  IF challenge = None
           THEN /\ Return(p, AuthFailure(req[p].ep, "challenge"))
                /\ loc' = [loc EXCEPT ![p].looked_at = now]
           ELSE IF verify_signature(ClientById(loc[p].client).public_key,
                                    req[p].challenge, req[p].challenge_signature)
           THEN /\ loc' = [loc EXCEPT ![p].authenticated = TRUE, ![p].challenge = challenge,
                                      ![p].looked_at = now]
                /\ Goto(p, "auth_mark_used")
           ELSE /\ Return(p, AuthFailure(req[p].ep, "signature"))
                /\ loc' = [loc EXCEPT ![p].challenge = challenge, ![p].looked_at = now]
    /\ UNCHANGED <<connected, now, store, req, consumed, issued>>

\* Mutant: the operation runs on a challenge that was never marked used
auth_mark_used_Skip(p) ==
    /\ pc[p] = "auth_mark_used"
    /\ Goto(p, OpLabel(req[p].ep))
    /\ UNCHANGED <<connected, now, store, req, loc, consumed, issued>>

\* mark_challenge_used: UPDATE challenges SET used = TRUE WHERE id = %s
mark_challenge_used(challenge_id) ==
    {IF c.id = challenge_id THEN [c EXCEPT !.used = TRUE] ELSE c : c \in challenges}

auth_mark_used(p) ==
    /\ pc[p] = "auth_mark_used"
    /\ challenges' = mark_challenge_used(loc[p].challenge)
    /\ consumed' = consumed \cup {<<req[p].link_token, req[p].challenge>>}
    /\ Goto(p, OpLabel(req[p].ep))
    /\ UNCHANGED <<connected, now, clients, challengeSeq, message_requests, messages,
                   req, loc, issued>>

\* db.verify_fetch_token(link_token, auth_header.split(' ')[1])
auth_verify_token(p) ==
    /\ pc[p] = "auth_verify_token"
    /\ IF verify_fetch_token(req[p].link_token, req[p].bearer)
       THEN /\ loc' = [loc EXCEPT ![p].authenticated = TRUE]
            /\ Goto(p, OpLabel(req[p].ep))
       ELSE /\ Return(p, AuthFailure(req[p].ep, "token"))
            /\ UNCHANGED loc
    /\ UNCHANGED <<connected, now, store, req, consumed, issued>>

\* ------------------------------------------------------------ POST /fetch
\* data.get('limit', 50), and 50 again when int(limit) raises
DefaultLimit == 50

\* The body of /fetch: data.get('include_seen', False), the limit after int(),
\* data.get('before_id'), data.get('since_id'), data.get('order', 'DESC')
FetchRequest(link_token, cred, include_seen, limit, before_id, since_id, order) ==
    [NoReq EXCEPT !.ep = "fetch", !.link_token = link_token, !.challenge = cred[1],
                  !.challenge_signature = cred[2], !.bearer = cred[3],
                  !.include_seen = include_seen, !.limit = limit,
                  !.before_id = before_id, !.since_id = since_id, !.order = order]

\* db.get_messages(link_token, include_seen=, limit=, before_id=, since_id=, order=):
\* Database.get_messages takes neither since_id nor order, so the call raises
\* TypeError before any statement runs and the handler answers 500
fetch_get_messages(p) ==
    /\ pc[p] = "fetch_get_messages"
    /\ Return(p, Resp(500, "get_messages() got an unexpected keyword argument 'since_id'"))
    /\ UNCHANGED <<connected, now, store, req, loc, consumed, issued>>

\* ------------------------------------------------------------ POST /ack
\* Mutant: the update forgets `AND link_token = %s`
mark_messages_seen_Unscoped(link_token, message_ids) ==
    IF message_ids = {} THEN messages
    ELSE {IF m.id \in message_ids THEN [m EXCEPT !.seen = TRUE] ELSE m : m \in messages}

\* mark_messages_seen: UPDATE messages SET seen = TRUE WHERE id IN (...) AND link_token = %s
mark_messages_seen(link_token, message_ids) ==
    IF message_ids = {} THEN messages
    ELSE {IF m.id \in message_ids /\ m.link_token = link_token
          THEN [m EXCEPT !.seen = TRUE] ELSE m : m \in messages}

ack_mark_seen(p) ==
    /\ pc[p] = "ack_mark_seen"
    /\ messages' = mark_messages_seen(req[p].link_token, req[p].message_ids)
    /\ Return(p, RespData(200, "Messages marked as seen", Cardinality(req[p].message_ids)))
    /\ UNCHANGED <<connected, now, clients, challenges, challengeSeq, message_requests,
                   req, loc, consumed, issued>>

\* ------------------------------------------------------------ POST /get_message_requests
\* get_pending_requests: WHERE to_link_token = %s AND status = 'pending' ORDER BY created_at DESC
PendingRows(to_link_token) ==
    {r \in message_requests : r.to_link_token = to_link_token /\ r.status = "pending"}

\* The orders MySQL may return the rows in: created_at descending, ties in any order
PendingOrders(to_link_token) ==
    LET rows == PendingRows(to_link_token)
        n == Cardinality(rows)
    IN  {s \in [1..n -> rows] :
            /\ \A i, j \in 1..n : i # j => s[i] # s[j]
            /\ \A i, j \in 1..n : i < j => s[i].created_at >= s[j].created_at}

get_pending_requests(p) ==
    /\ pc[p] = "get_pending_requests"
    /\ \E s \in PendingOrders(req[p].link_token) :
          Return(p, RespData(200, "Requests retrieved successfully",
                             [i \in DOMAIN s |-> s[i].id]))
    /\ UNCHANGED <<connected, now, store, req, loc, consumed, issued>>

\* ------------------------------------------------------------ POST /respond_message_request
\* Mutant: the status is checked before the ownership of the request
respond_get_request_StatusFirst(p) ==
    /\ pc[p] = "respond_get_request"
    /\ LET rows == IF connected THEN RequestRows(req[p].request_id) ELSE {}
       IN  IF rows = {}
           THEN Return(p, Resp(404, "Request not found"))
           ELSE LET request_info == CHOOSE r \in rows : TRUE
                IN  IF request_info.status # "pending"
                    THEN Return(p, Resp(400, "Request already processed"))
                    ELSE IF request_info.to_link_token # req[p].link_token
                    THEN Return(p, Resp(403, "Unauthorized - this request is not for you"))
                    ELSE Goto(p, "respond_update")
    /\ loc' = [loc EXCEPT ![p].request_status =
                   IF connected /\ RequestRows(req[p].request_id) # {}
                   THEN (CHOOSE r \in RequestRows(req[p].request_id) : TRUE).status
                   ELSE ""]
    /\ UNCHANGED <<connected, now, store, req, consumed, issued>>

respond_get_request(p) ==
    /\ pc[p] = "respond_get_request"
    /\ LET rows == IF connected THEN RequestRows(req[p].request_id) ELSE {}
       IN  IF rows = {}
           THEN Return(p, Resp(404, "Request not found"))
           ELSE LET request_info == CHOOSE r \in rows : TRUE
                IN  IF request_info.to_link_token # req[p].link_token
                    THEN Return(p, Resp(403, "Unauthorized - this request is not for you"))
                    ELSE IF request_info.status # "pending"
                    THEN Return(p, Resp(400, "Request already processed"))
                    ELSE Goto(p, "respond_update")
    /\ loc' = [loc EXCEPT ![p].request_status =
                   IF connected /\ RequestRows(req[p].request_id) # {}
                   THEN (CHOOSE r \in RequestRows(req[p].request_id) : TRUE).status
                   ELSE ""]
    /\ UNCHANGED <<connected, now, store, req, consumed, issued>>

\* Mutant: the UPDATE matches every request between the same two identities,
\* whichever way it points
update_request_status_Pair(request_id, status) ==
    {IF \E q \in RequestRows(request_id) :
            {r.from_link_token, r.to_link_token} = {q.from_link_token, q.to_link_token}
     THEN [r EXCEPT !.status = status] ELSE r : r \in message_requests}

\* update_request_status: UPDATE message_requests SET status = %s WHERE id = %s
update_request_status(request_id, status) ==
    {IF r.id = request_id THEN [r EXCEPT !.status = status] ELSE r : r \in message_requests}

NewStatus(action) == IF action = "accept" THEN "accepted" ELSE "rejected"

respond_update(p) ==
    /\ pc[p] = "respond_update"
    /\ message_requests' = update_request_status(req[p].request_id, NewStatus(req[p].action))
    /\ Return(p, RespData(200, "Request " \o NewStatus(req[p].action) \o " successfully",
                         NewStatus(req[p].action)))
    /\ UNCHANGED <<connected, now, clients, challenges, challengeSeq, messages,
                   req, loc, consumed, issued>>

\* ------------------------------------------------------------ POST /request_message_permission
InRequestPermission(q) == pc[q] \in {"rp_get_to", "rp_check", "rp_create"}

request_message_permission(p, from_link_token, to_link_token, limit) ==
    /\ Cardinality(message_requests) + Cardinality({q \in Procs : InRequestPermission(q)}) < limit
    /\ Begin(p, [NoReq EXCEPT !.ep = "request_message_permission",
                              !.from_link_token = from_link_token,
                              !.link_token = to_link_token])
    /\ IF from_link_token = None \/ to_link_token = None
       THEN /\ Return(p, Resp(400, "from_link_token and to_link_token are required"))
            /\ loc' = [loc EXCEPT ![p] = NoLoc]
       ELSE /\ loc' = [loc EXCEPT ![p] = [NoLoc EXCEPT !.client = get_client_by_link_token(from_link_token)]]
            /\ Goto(p, "rp_get_to")
    /\ UNCHANGED <<connected, now, store, consumed, issued>>

rp_get_to(p) ==
    /\ pc[p] = "rp_get_to"
    /\ IF loc[p].client = None
       THEN Return(p, Resp(404, "Invalid from_link_token"))
       ELSE IF get_client_by_link_token(req[p].link_token) = None
       THEN Return(p, Resp(404, "Invalid to_link_token"))
       ELSE Goto(p, "rp_check")
    /\ UNCHANGED <<connected, now, store, req, loc, consumed, issued>>

\* Mutant: the accepted record is not looked for, every request inserts a row
rp_check_NoCheck(p) ==
    /\ pc[p] = "rp_check"
    /\ Goto(p, "rp_create")
    /\ UNCHANGED <<connected, now, store, req, loc, consumed, issued>>

\* Mutant: a pending request for the pair is answered like an accepted one
rp_check_Dedup(p) ==
    /\ pc[p] = "rp_check"
    /\ IF \E r \in message_requests : /\ r.from_link_token = req[p].from_link_token
                                       /\ r.to_link_token = req[p].link_token
                                       /\ r.status \in {"accepted", "pending"}
       THEN Return(p, RespData(200, "Permission already granted", "accepted"))
       ELSE Goto(p, "rp_create")
    /\ UNCHANGED <<connected, now, store, req, loc, consumed, issued>>

rp_check(p) ==
    /\ pc[p] = "rp_check"
    /\ IF check_message_permission(req[p].from_link_token, req[p].link_token)
       THEN Return(p, RespData(200, "Permission already granted", "accepted"))
       ELSE Goto(p, "rp_create")
    /\ UNCHANGED <<connected, now, store, req, loc, consumed, issued>>

\* create_message_request: INSERT ... VALUES (%s, %s, %s, 'pending')
NewRequest(id, from_link_token, to_link_token) ==
    [id |-> id, from_link_token |-> from_link_token, to_link_token |-> to_link_token,
     status |-> "pending", created_at |-> now]

rp_create(p) ==
    /\ pc[p] = "rp_create"
    /\ message_requests' = message_requests \cup
          {NewRequest(Cardinality(message_requests) + 1, req[p].from_link_token, req[p].link_token)}
    /\ Return(p, RespData(201, "Message request sent successfully", Cardinality(message_requests) + 1))
    /\ UNCHANGED <<connected, now, clients, challenges, challengeSeq, messages,
                   req, loc, consumed, issued>>

\* ------------------------------------------------------------ POST /send
\* Mutant: the comparison refuses the limit itself
MaxPayloadBytes_Exclusive == 16 * 1024 - 1

MaxPayloadBytes == 16 * 1024
MaxMetadataChars == 4 * 1024

\* base64.b64encode of n bytes: every 3 bytes, the last group padded, give 4 characters
b64encode(n) == [chars |-> 4 * ((n + 2) \div 3), pad |-> (3 - (n % 3)) % 3, valid |-> TRUE]

\* Mutant: the length of the text is taken for the length of the payload
b64decode_Chars(text) == IF text.valid THEN text.chars ELSE -1

\* len(base64.b64decode(text)): 3 bytes for every 4 characters, less the padding;
\* -1 when b64decode raises
b64decode(text) == IF text.valid THEN 3 * (text.chars \div 4) - text.pad ELSE -1

InSend(q) == pc[q] \in {"send_get_from", "send_check", "send_store"}

\* Mutant: the permission of the sender is looked up for anonymous sends too
send_message_AlwaysGated(p, to_link_token, from_link_token, encrypted_message, metadata_len, limit) ==
    /\ Cardinality(messages) + Cardinality({q \in Procs : pc[q] \in {"send_get_from", "send_check", "send_store"}}) < limit
    /\ Begin(p, [NoReq EXCEPT !.ep = "send", !.link_token = to_link_token,
                              !.from_link_token = from_link_token,
                              !.encrypted_message = encrypted_message,
                              !.metadata_len = metadata_len])
    /\ loc' = [loc EXCEPT ![p] = NoLoc]
    /\ IF to_link_token = None
       THEN Return(p, Resp(400, "link_token and encrypted_message are required"))
       ELSE IF b64decode(encrypted_message) < 0
       THEN Return(p, Resp(400, "Invalid base64 for encrypted_message"))
       ELSE IF b64decode(encrypted_message) > MaxPayloadBytes
       THEN Return(p, Resp(413, "Encrypted message too large (max 16KB)"))
       ELSE IF metadata_len > MaxMetadataChars
       THEN Return(p, Resp(413, "Metadata too large (max 4KB)"))
       ELSE IF get_client_by_link_token(to_link_token) = None
       THEN Return(p, Resp(404, "Invalid link_token"))
       ELSE IF from_link_token # None
       THEN Goto(p, "send_get_from")
       ELSE Goto(p, "send_check")
    /\ UNCHANGED <<connected, now, store, consumed, issued>>

\* Mutant: the recipient is resolved before the payload is looked at
send_message_RecipientFirst(p, to_link_token, from_link_token, encrypted_message, metadata_len, limit) ==
    /\ Cardinality(messages) + Cardinality({q \in Procs : pc[q] \in {"send_get_from", "send_check", "send_store"}}) < limit
    /\ Begin(p, [NoReq EXCEPT !.ep = "send", !.link_token = to_link_token,
                              !.from_link_token = from_link_token,
                              !.encrypted_message = encrypted_message,
                              !.metadata_len = metadata_len])
    /\ loc' = [loc EXCEPT ![p] = NoLoc]
    /\ IF to_link_token = None
       THEN Return(p, Resp(400, "link_token and encrypted_message are required"))
       ELSE IF get_client_by_link_token(to_link_token) = None
       THEN Return(p, Resp(404, "Invalid link_token"))
       ELSE IF b64decode(encrypted_message) < 0
       THEN Return(p, Resp(400, "Invalid base64 for encrypted_message"))
       ELSE IF b64decode(encrypted_message) > MaxPayloadBytes
       THEN Return(p, Resp(413, "Encrypted message too large (max 16KB)"))
       ELSE IF metadata_len > MaxMetadataChars
       THEN Return(p, Resp(413, "Metadata too large (max 4KB)"))
       ELSE IF from_link_token # None
       THEN Goto(p, "send_get_from")
       ELSE Goto(p, "send_store")
    /\ UNCHANGED <<connected, now, store, consumed, issued>>

send_message(p, to_link_token, from_link_token, encrypted_message, metadata_len, limit) ==
    /\ Cardinality(messages) + Cardinality({q \in Procs : InSend(q)}) < limit
    /\ Begin(p, [NoReq EXCEPT !.ep = "send", !.link_token = to_link_token,
                              !.from_link_token = from_link_token,
                              !.encrypted_message = encrypted_message,
                              !.metadata_len = metadata_len])
    /\ loc' = [loc EXCEPT ![p] = NoLoc]
    /\ IF to_link_token = None
       THEN Return(p, Resp(400, "link_token and encrypted_message are required"))
       ELSE IF b64decode(encrypted_message) < 0
       THEN Return(p, Resp(400, "Invalid base64 for encrypted_message"))
       ELSE IF b64decode(encrypted_message) > MaxPayloadBytes
       THEN Return(p, Resp(413, "Encrypted message too large (max 16KB)"))
       ELSE IF metadata_len > MaxMetadataChars
       THEN Return(p, Resp(413, "Metadata too large (max 4KB)"))
       ELSE IF get_client_by_link_token(to_link_token) = None
       THEN Return(p, Resp(404, "Invalid link_token"))
       ELSE IF from_link_token # None
       THEN Goto(p, "send_get_from")
       ELSE Goto(p, "send_store")
    /\ UNCHANGED <<connected, now, store, consumed, issued>>

send_get_from(p) ==
    /\ pc[p] = "send_get_from"
    /\ IF get_client_by_link_token(req[p].from_link_token) = None
       THEN Return(p, Resp(404, "Invalid from_link_token"))
       ELSE Goto(p, "send_check")
    /\ UNCHANGED <<connected, now, store, req, loc, consumed, issued>>

\* Mutant: the message is stored before the permission is looked up
send_check_StoresFirst(p) ==
    /\ pc[p] = "send_check"
    /\ messages' = messages \cup
          {[id |-> Cardinality(messages) + 1, link_token |-> req[p].link_token,
            encrypted_message |-> req[p].encrypted_message,
            metadata_len |-> req[p].metadata_len, seen |-> FALSE, created_at |-> now]}
    /\ IF ~check_message_permission(req[p].from_link_token, req[p].link_token)
       THEN Return(p, Resp(403, "Permission denied. Please request permission first."))
       ELSE Return(p, RespData(201, "Message sent successfully", Cardinality(messages) + 1))
    /\ UNCHANGED <<connected, now, clients, challenges, challengeSeq, message_requests,
                   req, loc, consumed, issued>>

send_check(p) ==
    /\ pc[p] = "send_check"
    /\ IF ~check_message_permission(req[p].from_link_token, req[p].link_token)
       THEN Return(p, Resp(403, "Permission denied. Please request permission first."))
       ELSE Goto(p, "send_store")
    /\ UNCHANGED <<connected, now, store, req, loc, consumed, issued>>

\* Mutant: the row is born seen
NewMessage_Seen(id, link_token, encrypted_message, metadata_len) ==
    [id |-> id, link_token |-> link_token, encrypted_message |-> encrypted_message,
     metadata_len |-> metadata_len, seen |-> TRUE, created_at |-> now]

\* store_message: INSERT INTO messages (link_token, encrypted_message, metadata);
\* seen BOOLEAN DEFAULT FALSE, created_at TIMESTAMP DEFAULT CURRENT_TIMESTAMP
NewMessage(id, link_token, encrypted_message, metadata_len) ==
    [id |-> id, link_token |-> link_token, encrypted_message |-> encrypted_message,
     metadata_len |-> metadata_len, seen |-> FALSE, created_at |-> now]

\* Mutant: the id of the first row is given again
send_store_FirstId(p) ==
    /\ pc[p] = "send_store"
    /\ messages' = messages \cup
          {NewMessage(1, req[p].link_token, req[p].encrypted_message, req[p].metadata_len)}
    /\ Return(p, RespData(201, "Message sent successfully", 1))
    /\ UNCHANGED <<connected, now, clients, challenges, challengeSeq, message_requests,
                   req, loc, consumed, issued>>

\* cursor.lastrowid of id BIGINT AUTO_INCREMENT: no row is ever deleted, so the
\* next id is the number of rows plus one
send_store(p) ==
    /\ pc[p] = "send_store"
    /\ messages' = messages \cup
          {NewMessage(Cardinality(messages) + 1, req[p].link_token, req[p].encrypted_message,
                      req[p].metadata_len)}
    /\ Return(p, RespData(201, "Message sent successfully", Cardinality(messages) + 1))
    /\ UNCHANGED <<connected, now, clients, challenges, challengeSeq, message_requests,
                   req, loc, consumed, issued>>

\* ------------------------------------------------------------ POST /check_contact
\* get_client_info_by_link: the row's link_token, or None (also when not connected)
get_client_info_by_link(link_token) ==
    IF connected /\ ClientRows(link_token) # {} THEN link_token ELSE None

\* 200 {'exists': True, 'link_token': ...} or 200 {'exists': False}
check_contact(p, link_token) ==
    /\ Begin(p, [NoReq EXCEPT !.ep = "check_contact", !.link_token = link_token])
    /\ loc' = [loc EXCEPT ![p] = NoLoc]
    /\ IF link_token = None
       THEN Return(p, Resp(400, "link_token is required"))
       ELSE IF get_client_info_by_link(link_token) # None
       THEN Return(p, RespData(200, "exists", get_client_info_by_link(link_token)))
       ELSE Return(p, RespData(200, "not exists", None))
    /\ UNCHANGED <<connected, now, store, consumed, issued>>

\* ------------------------------------------------------------ request inputs
KeyInputs == Keys \cup {InvalidKey}
KeyTypes == {"ed25519", "rsa"}

\* Link tokens a caller may name: the registered ones and one nobody holds
LinkInputs(limit) == 1..limit

\* Nonces a caller may present: every nonce issued so far, or one never issued
NonceInputs == IF challengeSeq = 0 THEN {Bogus} ELSE 1..challengeSeq

\* The fetch token /register returned with link_token, and all those returned so far
FetchTokenOf(link_token) == generate_fetch_token(link_token)
FetchTokens == {generate_fetch_token(n) : n \in 1..Cardinality(clients)}

\* Credentials <<challenge, challenge_signature, bearer>> of a request for link_token:
\* both challenge fields with a signature by either key, alone or next to the
\* identity's own fetch token or a wrong one; a bearer token alone (anybody's, or a
\* wrong one), also next to half a challenge pair; nothing
Credentials(link_token) ==
    {<<n, Sign(k, n), b>> : n \in NonceInputs, k \in Keys,
                            b \in {None, FetchTokenOf(link_token), Bogus}}
    \cup {<<None, NoSig, b>> : b \in FetchTokens \cup {Bogus}}
    \cup {<<n, NoSig, FetchTokenOf(link_token)>> : n \in NonceInputs}
    \cup {<<None, Sign(1, Bogus), FetchTokenOf(link_token)>>}
    \cup {<<None, NoSig, None>>, <<Bogus, NoSig, None>>}

AuthRequest(ep, link_token, cred) ==
    [NoReq EXCEPT !.ep = ep, !.link_token = link_token, !.challenge = cred[1],
                  !.challenge_signature = cred[2], !.bearer = cred[3],
                  !.request_id = 1, !.action = "accept",
                  !.limit = DefaultLimit, !.order = "DESC"]

AuthStep(p) ==
    \/ auth_get_challenge(p)
    \/ auth_mark_used(p)
    \/ auth_verify_token(p)

OpStep(p) ==
    \/ fetch_get_messages(p)
    \/ ack_mark_seen(p)
    \/ get_pending_requests(p)
    \/ respond_get_request(p)

IssueStep(p) ==
    \/ cr_count(p)
    \/ cr_age(p)
    \/ cr_create(p)
    \/ cr_cleanup(p)

AuthBegin(p, limit) ==
    \E ep \in AuthEndpoints, l \in LinkInputs(limit) :
        \E cred \in Credentials(l) : auth_begin(p, AuthRequest(ep, l, cred))

\* Key names are interchangeable: the n-th client brings one of the first n keys
Register(p, limit) ==
    \E k \in KeyInputs, t \in KeyTypes :
        /\ k <= Cardinality(clients) + 1
        /\ register(p, k, t, limit)

\* ------------------------------------------------------------ authentication, one request at a time
\* One identity, every combination of credentials; several identities follow below
AuthLinks == {1}

NextAuth ==
    \/ \E p \in SeqProcs :
          \/ Register(p, Cardinality(AuthLinks))
          \/ \E l \in AuthLinks : challenge_request(p, l, MaxChallenges)
          \/ IssueStep(p)
          \/ AuthBegin(p, Cardinality(AuthLinks))
          \/ AuthStep(p)
          \/ OpStep(p)
          \/ Close(p)
    \/ Tick(MaxTime)
    \/ Elapse

SpecAuth == Init /\ [][NextAuth]_vars

\* ------------------------------------------------------------ authentication, several identities
\* Credentials of one method only: a nonce signed by anybody's key, or a bearer
\* token (anybody's, or a wrong one)
CrossCredentials ==
    {<<n, Sign(k, n), None>> : n \in NonceInputs, k \in Keys}
    \cup {<<None, NoSig, b>> : b \in FetchTokens \cup {Bogus}}

CrossAuthBegin(p) ==
    \E ep \in AuthEndpoints, l \in LinkInputs(MaxCrossClients) :
        \E cred \in CrossCredentials : auth_begin(p, AuthRequest(ep, l, cred))

NextCross ==
    \/ \E p \in SeqProcs :
          \/ Register(p, MaxCrossClients)
          \/ \E l \in LinkInputs(MaxCrossClients) : challenge_request(p, l, MaxCrossChallenges)
          \/ IssueStep(p)
          \/ CrossAuthBegin(p)
          \/ AuthStep(p)
          \/ OpStep(p)
          \/ Close(p)
    \/ Elapse

SpecCross == Init /\ [][NextCross]_vars

\* ------------------------------------------------------------ authentication, requests in parallel
\* Flask serves requests on several threads: the statements of two handlers interleave
ConcCredentials == {<<n, Sign(k, n), None>> : n \in NonceInputs, k \in Keys}

ConcAuthBegin(p) ==
    \E ep \in AuthEndpoints, l \in LinkInputs(MaxConcClients) :
        \E cred \in ConcCredentials : auth_begin(p, AuthRequest(ep, l, cred))

NextConc ==
    \E p \in Procs :
        \/ Register(p, MaxConcClients)
        \/ \E l \in LinkInputs(MaxConcClients) : challenge_request(p, l, MaxConcChallenges)
        \/ IssueStep(p)
        \/ ConcAuthBegin(p)
        \/ auth_get_challenge(p)
        \/ auth_mark_used(p)
        \/ OpStep(p)
        \/ Close(p)

SpecConc == Init /\ [][NextConc]_vars

\* ------------------------------------------------------------ issuance under the rate limits
\* The holder of an identity spends its challenges on /ack in the order it got
\* them, signing with its own key
OldestOutstanding(link_token) ==
    {c \in Outstanding(link_token) : \A d \in Outstanding(link_token) : c.id <= d.id}

\* The limits are kept per identity (WHERE link_token = %s): one identity is followed
RateLinks == {1}

RateAuthBegin(p) ==
    \E l \in RateLinks :
        \E c \in OldestOutstanding(l) :
            /\ l \in Registered
            /\ auth_begin(p, AuthRequest("ack", l,
                     <<c.challenge_nonce, Sign(ClientById(l).public_key, c.challenge_nonce), None>>))

NextRate ==
    \/ \E p \in SeqProcs :
          \/ Register(p, Cardinality(RateLinks))
          \/ \E l \in RateLinks : challenge_request(p, l, MaxRateChallenges)
          \/ IssueStep(p)
          \/ RateAuthBegin(p)
          \/ auth_get_challenge(p)
          \/ auth_mark_used(p)
          \/ ack_mark_seen(p)
          \/ Close(p)
    \/ Tick(MaxRateTime)

SpecRate == Init /\ [][NextRate]_vars

\* ------------------------------------------------------------ the permission ledger
RpStep(p) ==
    \/ rp_get_to(p)
    \/ rp_check(p)
    \/ rp_create(p)

SendStep(p) ==
    \/ send_get_from(p)
    \/ send_check(p)
    \/ send_store(p)

\* Two identities, each with an Ed25519 key of its own and its own fetch token
PermLinks == {1, 2}

RegisterValid(p) ==
    \E k \in Keys :
        /\ k = Cardinality(clients) + 1
        /\ register(p, k, "ed25519", Cardinality(PermLinks))

\* /respond_message_request with a Bearer token: anybody's, for any request id
Respond(p) ==
    \E l \in PermLinks, b \in FetchTokens,
       id \in 1..MaxPermRequests, action \in {"accept", "reject"} :
        auth_begin(p, [AuthRequest("respond_message_request", l, <<None, NoSig, b>>)
                          EXCEPT !.request_id = id, !.action = action])

\* The same by the holder of the identity, with its own token
RespondOwn(p) ==
    \E l \in PermLinks, id \in 1..MaxPermRequests, action \in {"accept", "reject"} :
        /\ l \in Registered
        /\ auth_begin(p, [AuthRequest("respond_message_request", l, <<None, NoSig, FetchTokenOf(l)>>)
                             EXCEPT !.request_id = id, !.action = action])

\* /send of a small valid payload, anonymous or naming another identity as sender
Send(p) ==
    \E to \in PermLinks :
        \E from \in (PermLinks \ {to}) \cup {None} :
            send_message(p, to, from, b64encode(1), 0, MaxPermMessages)

\* /request_message_permission from one identity to the other
Request(p) ==
    \E from \in PermLinks :
        \E to \in PermLinks \ {from} :
            request_message_permission(p, from, to, MaxPermRequests)

RespondStep(p) ==
    \/ auth_verify_token(p)
    \/ respond_get_request(p)
    \/ respond_update(p)

\* One thread serves every kind of request while a second one serves responses
NextPerm ==
    \/ \E p \in SeqProcs :
          \/ RegisterValid(p)
          \/ Request(p)
          \/ RpStep(p)
          \/ Respond(p)
          \/ Send(p)
          \/ SendStep(p)
    \/ \E p \in Procs \ SeqProcs : RespondOwn(p)
    \/ \E p \in Procs :
          \/ RespondStep(p)
          \/ Close(p)

SpecPerm == Init /\ [][NextPerm]_vars

\* ------------------------------------------------------------ the permission ledger, one request at a time
\* /get_message_requests by the holder of an identity, with its own token
GetPending(p) ==
    \E l \in PermLinks :
        /\ l \in Registered
        /\ auth_begin(p, AuthRequest("get_message_requests", l, <<None, NoSig, FetchTokenOf(l)>>))

\* /respond_message_request by the holder of an identity, for any request id
RespondAny(p, limit) ==
    \E l \in PermLinks, id \in 1..limit, action \in {"accept", "reject"} :
        /\ l \in Registered
        /\ auth_begin(p, [AuthRequest("respond_message_request", l, <<None, NoSig, FetchTokenOf(l)>>)
                             EXCEPT !.request_id = id, !.action = action])

\* /request_message_permission from one identity to the other, again and again
RequestAgain(p, limit) ==
    \E from \in PermLinks :
        \E to \in PermLinks \ {from} :
            request_message_permission(p, from, to, limit)

LedgerStep(p) ==
    \/ RpStep(p)
    \/ auth_verify_token(p)
    \/ respond_get_request(p)
    \/ respond_update(p)
    \/ get_pending_requests(p)
    \/ Close(p)

NextLedger ==
    \E p \in SeqProcs :
        \/ RegisterValid(p)
        \/ RequestAgain(p, MaxLedgerRequests)
        \/ RespondAny(p, MaxLedgerRequests)
        \/ GetPending(p)
        \/ LedgerStep(p)

SpecLedger == Init /\ [][NextLedger]_vars

\* ------------------------------------------------------------ the pending list, with the clock running
\* created_at is a TIMESTAMP: requests made within one second bear the same value
NextPending ==
    \/ \E p \in SeqProcs :
          \/ RegisterValid(p)
          \/ RequestAgain(p, MaxPendingRequests)
          \/ RespondAny(p, MaxPendingRequests)
          \/ GetPending(p)
          \/ LedgerStep(p)
    \/ Tick(MaxPendingTime)

SpecPending == Init /\ [][NextPending]_vars

\* ------------------------------------------------------------ the message store, one request at a time
\* A base64 text of MaxPayloadBytes characters, and one b64decode raises on
TextOfLimitChars == [chars |-> MaxPayloadBytes, pad |-> 0, valid |-> TRUE]
InvalidText == [chars |-> 5, pad |-> 0, valid |-> FALSE]

\* Payloads at, just over and well over the limit; a text as long as the limit
PayloadInputs ==
    {b64encode(MaxPayloadBytes), b64encode(MaxPayloadBytes + 1), b64encode(17 * 1024),
     TextOfLimitChars, InvalidText}

\* len(json.dumps(metadata)): none, at the limit, over it
MetadataInputs == {0, MaxMetadataChars, MaxMetadataChars + 1}

SendPayload(p) ==
    \E to \in PermLinks, encrypted_message \in PayloadInputs, metadata_len \in MetadataInputs :
        \E from \in (PermLinks \ {to}) \cup {None} :
            send_message(p, to, from, encrypted_message, metadata_len, MaxStoreMessages)

NextStore ==
    \E p \in SeqProcs :
        \/ RegisterValid(p)
        \/ SendPayload(p)
        \/ SendStep(p)
        \/ Close(p)

SpecStore == Init /\ [][NextStore]_vars

\* ------------------------------------------------------------ the mailbox read page by page
\* /send of a small payload by an anonymous sender
SendAnonymous(p, limit) ==
    \E to \in PermLinks : send_message(p, to, None, b64encode(1), 0, limit)

\* /ack by the holder of an identity, with its own token, of any ids: its own
\* messages', the other identity's, and one no message has
AckOwn(p, limit) ==
    \E l \in PermLinks, ids \in SUBSET (1..(limit + 1)) :
        /\ l \in Registered
        /\ auth_begin(p, [AuthRequest("ack", l, <<None, NoSig, FetchTokenOf(l)>>)
                             EXCEPT !.message_ids = ids])

\* limit: absent, below the range, small, above the range
FetchLimits == {DefaultLimit, 0, 1, 2, 300}
FetchOrders == {"DESC", "ASC", "INVALID"}

\* before_id and since_id: absent, or the id of a message
BeforeInputs == {None, 3}
SinceInputs == {None, 1}

\* /fetch by the holder of an identity, with its own token
FetchPage(p) ==
    \E l \in PermLinks, include_seen \in BOOLEAN, limit \in FetchLimits,
       before_id \in BeforeInputs, since_id \in SinceInputs, order \in FetchOrders :
        /\ l \in Registered
        /\ auth_begin(p, FetchRequest(l, <<None, NoSig, FetchTokenOf(l)>>,
                                      include_seen, limit, before_id, since_id, order))

NextFetch ==
    \E p \in SeqProcs :
        \/ RegisterValid(p)
        \/ SendAnonymous(p, MaxFetchMessages)
        \/ send_store(p)
        \/ AckOwn(p, MaxFetchMessages)
        \/ FetchPage(p)
        \/ auth_verify_token(p)
        \/ ack_mark_seen(p)
        \/ fetch_get_messages(p)
        \/ Close(p)

SpecFetch == Init /\ [][NextFetch]_vars

\* ------------------------------------------------------------ the mailbox written and acknowledged
\* /fetch by the holder of an identity, with its own token and no other field
FetchOwn(p) ==
    \E l \in PermLinks :
        /\ l \in Registered
        /\ auth_begin(p, AuthRequest("fetch", l, <<None, NoSig, FetchTokenOf(l)>>))

NextMailbox ==
    \E p \in SeqProcs :
        \/ RegisterValid(p)
        \/ SendAnonymous(p, MaxMailboxMessages)
        \/ send_store(p)
        \/ AckOwn(p, MaxMailboxMessages)
        \/ FetchOwn(p)
        \/ auth_verify_token(p)
        \/ ack_mark_seen(p)
        \/ fetch_get_messages(p)
        \/ Close(p)

SpecMailbox == Init /\ [][NextMailbox]_vars

\* ------------------------------------------------------------ every endpoint, database up or down
\* The holders of two identities use every endpoint with the tokens they were
\* given; connected is what Database.connect() left it at
OutageAuthBegin(p) ==
    \E ep \in AuthEndpoints, l \in PermLinks :
        auth_begin(p, AuthRequest(ep, l, <<None, NoSig, FetchTokenOf(l)>>))

OutageSend(p) ==
    \E to \in PermLinks :
        \E from \in (PermLinks \ {to}) \cup {None} :
            send_message(p, to, from, b64encode(1), 0, MaxOutageRows)

OutageRequest(p) ==
    \E from \in PermLinks :
        \E to \in PermLinks \ {from} :
            request_message_permission(p, from, to, MaxOutageRows)

NextOutage ==
    \E p \in SeqProcs :
        \/ RegisterValid(p)
        \/ \E l \in PermLinks : challenge_request(p, l, MaxOutageRows)
        \/ IssueStep(p)
        \/ OutageAuthBegin(p)
        \/ auth_verify_token(p)
        \/ OpStep(p)
        \/ respond_update(p)
        \/ OutageSend(p)
        \/ SendStep(p)
        \/ OutageRequest(p)
        \/ RpStep(p)
        \/ \E l \in PermLinks : check_contact(p, l)
        \/ Close(p)

SpecOutage == Init /\ [][NextOutage]_vars

\* ------------------------------------------------------------ two callers probing one identity
\* Two requests for the same identity are answered side by side, each with
\* credentials of one method: a nonce signed by some key, or a bearer token
OracleAuthBegin(p) ==
    \E ep \in AuthEndpoints, l \in AuthLinks :
        \E cred \in CrossCredentials : auth_begin(p, AuthRequest(ep, l, cred))

NextOracle ==
    \E p \in Procs :
        \/ Register(p, Cardinality(AuthLinks))
        \/ \E l \in AuthLinks : challenge_request(p, l, MaxOracleChallenges)
        \/ IssueStep(p)
        \/ OracleAuthBegin(p)
        \/ AuthStep(p)
        \/ OpStep(p)
        \/ Close(p)

SpecOracle == Init /\ [][NextOracle]_vars

\* ------------------------------------------------------------ the gated writes
\* /ack and /respond_message_request for either identity with a bearer token:
\* its own, the other identity's, or a wrong one
GateAck(p) ==
    \E l \in PermLinks, b \in FetchTokens \cup {Bogus}, ids \in SUBSET (1..MaxGateRows) :
        auth_begin(p, [AuthRequest("ack", l, <<None, NoSig, b>>) EXCEPT !.message_ids = ids])

GateRespond(p) ==
    \E l \in PermLinks, b \in FetchTokens \cup {Bogus},
       id \in 1..MaxGateRows, action \in {"accept", "reject"} :
        auth_begin(p, [AuthRequest("respond_message_request", l, <<None, NoSig, b>>)
                          EXCEPT !.request_id = id, !.action = action])

NextGate ==
    \E p \in SeqProcs :
        \/ RegisterValid(p)
        \/ SendAnonymous(p, MaxGateRows)
        \/ send_store(p)
        \/ RequestAgain(p, MaxGateRows)
        \/ RpStep(p)
        \/ GateAck(p)
        \/ GateRespond(p)
        \/ auth_verify_token(p)
        \/ ack_mark_seen(p)
        \/ respond_get_request(p)
        \/ respond_update(p)
        \/ Close(p)

SpecGate == Init /\ [][NextGate]_vars

\* ------------------------------------------------------------ sends of every kind against a ledger
\* /send with payloads and metadata around the limits, to and from either
\* identity, while permission is requested, granted or refused
SendAny(p) ==
    \E to \in PermLinks,
       encrypted_message \in {b64encode(1), b64encode(MaxPayloadBytes + 1), InvalidText},
       metadata_len \in {0, MaxMetadataChars + 1} :
        \E from \in (PermLinks \ {to}) \cup {None} :
            send_message(p, to, from, encrypted_message, metadata_len, MaxSendMessages)

NextSend ==
    \E p \in SeqProcs :
        \/ RegisterValid(p)
        \/ SendAny(p)
        \/ SendStep(p)
        \/ RequestAgain(p, MaxSendRequests)
        \/ RpStep(p)
        \/ RespondAny(p, MaxSendRequests)
        \/ auth_verify_token(p)
        \/ respond_get_request(p)
        \/ respond_update(p)
        \/ Close(p)

SpecSend == Init /\ [][NextSend]_vars

\* ------------------------------------------------------------ issuance with failing statements
\* Any statement of /challenge_request may raise while the database is connected
NextFault ==
    \/ \E p \in SeqProcs :
          \/ Register(p, Cardinality(RateLinks))
          \/ \E l \in RateLinks : challenge_request(p, l, MaxFaultChallenges)
          \/ IssueStep(p)
          \/ cr_count_raises(p)
          \/ cr_age_raises(p)
          \/ cr_create_raises(p)
          \/ Close(p)
    \/ Tick(MaxFaultTime)

SpecFault == Init /\ [][NextFault]_vars

\* ------------------------------------------------------------ issuance, requests in parallel
\* The cooldown passes with the requests in flight held where they are
Pause(limit) ==
    /\ now < limit
    /\ now' = now + CooldownSeconds
    /\ UNCHANGED <<connected, store, pc, req, loc, resp, consumed, issued>>

\* Two threads serve /challenge_request for one identity; their statements interleave
NextBurst ==
    \/ \E p \in SeqProcs : register(p, 1, "ed25519", Cardinality(RateLinks))
    \/ \E p \in Procs :
          \/ \E l \in RateLinks : challenge_request(p, l, MaxBurstChallenges)
          \/ IssueStep(p)
          \/ Close(p)
    \/ Pause(MaxBurstTime)

SpecBurst == Init /\ [][NextBurst]_vars

\* ------------------------------------------------------------ a request racing with its accept
\* One thread serves /request_message_permission while a second one serves the
\* recipient's /respond_message_request
NextRace ==
    \/ \E p \in SeqProcs :
          \/ RegisterValid(p)
          \/ RequestAgain(p, MaxRaceRequests)
          \/ RpStep(p)
    \/ \E p \in Procs \ SeqProcs : RespondAny(p, MaxRaceRequests)
    \/ \E p \in Procs :
          \/ RespondStep(p)
          \/ Close(p)

SpecRace == Init /\ [][NextRace]_vars

\* ------------------------------------------------------------ operations that fail after authentication
\* /fetch and /respond_message_request (accepting request 1) of the first identity
\* with a nonce issued so far, signed with its key
RetryBegin(p) ==
    \E l \in AuthLinks, n \in NonceInputs, ep \in {"fetch", "respond_message_request"} :
        /\ l \in Registered
        /\ auth_begin(p, AuthRequest(ep, l, <<n, Sign(ClientById(get_client_by_link_token(l)).public_key, n), None>>))

\* The client sends the request it was just answered once more, as it was
RetrySame(q) ==
    \E p \in SeqProcs :
        /\ pc[p] = "done" /\ req[p].ep \in AuthEndpoints
        /\ auth_begin(q, req[p])

\* One thread registers, asks for permission, has challenges issued and serves the
\* signed requests; the second one serves the retries
NextRetry ==
    \/ \E p \in SeqProcs :
          \/ RegisterValid(p)
          \/ RequestAgain(p, MaxRetryRequests)
          \/ RpStep(p)
          \/ \E l \in AuthLinks : challenge_request(p, l, MaxRetryChallenges)
          \/ IssueStep(p)
          \/ RetryBegin(p)
    \/ \E q \in Procs \ SeqProcs : RetrySame(q)
    \/ \E p \in Procs :
          \/ auth_get_challenge(p)
          \/ auth_mark_used(p)
          \/ fetch_get_messages(p)
          \/ respond_get_request(p)
          \/ respond_update(p)
          \/ Close(p)
    \/ (\A p \in Procs : pc[p] = "idle") /\ Pause(MaxRetryTime)

SpecRetry == Init /\ [][NextRetry]_vars

\* ------------------------------------------------------------ issuance after a quiet period
\* One identity has challenges issued every three seconds and uses some of them;
\* then nothing is asked for the lifetime of a challenge
NextQuiet ==
    \/ \E p \in SeqProcs :
          \/ Register(p, Cardinality(RateLinks))
          \/ \E l \in RateLinks : challenge_request(p, l, MaxQuietChallenges)
          \/ IssueStep(p)
          \/ RateAuthBegin(p)
          \/ auth_get_challenge(p)
          \/ auth_mark_used(p)
          \/ ack_mark_seen(p)
          \/ Close(p)
    \/ Pause(MaxQuietTime)
    \/ Elapse

SpecQuiet == Init /\ [][NextQuiet]_vars

\* ------------------------------------------------------------ claims: authentication
\* The request of p presents both challenge fields and has passed body validation
\* and the identity lookup: it is decided by the challenge-response branch
ChallengeAttempt(p) ==
    /\ req[p].ep \in AuthEndpoints
    /\ loc[p].method = "challenge"

\* The signature of p's request is the identity's own signature over the nonce presented
CorrectSignature(p) ==
    /\ ClientById(loc[p].client).public_key \in Keys
    /\ req[p].challenge_signature = Sign(ClientById(loc[p].client).public_key, req[p].challenge)

Rejected401(p) == pc[p] = "done" /\ resp[p].status = 401 /\ ~loc[p].authenticated

\* C1: one request at a time, a well-formed request on any of the four authenticated
\* endpoints that presents, with a signature, a nonce that has already authenticated
\* its identity (and was marked used) is never authenticated, and is answered 401
C1_ReplayRejected ==
    \A p \in Procs :
        (ChallengeAttempt(p) /\ loc[p].replay) =>
            /\ ~loc[p].authenticated
            /\ pc[p] \in {"auth_get_challenge", "done"}
            /\ pc[p] = "done" => resp[p].status = 401

C1_Witness ==
    \E p \in Procs :
        /\ ChallengeAttempt(p) /\ loc[p].replay /\ CorrectSignature(p)
        /\ Rejected401(p)

\* C3: a request that presents a valid (unexpired, unused) nonce with an invalid
\* signature is answered 401 and the challenge stays unused: a challenge row is
\* marked used only by a request that authenticated with it; and a request that
\* finds a valid challenge for its nonce and bears the correct signature authenticates
C3_BadSignatureKeepsNonce ==
    /\ \A p \in Procs :
          (ChallengeAttempt(p) /\ pc[p] # "auth_get_challenge" /\ loc[p].challenge # None) =>
              IF CorrectSignature(p)
              THEN loc[p].authenticated
              ELSE /\ Rejected401(p)
                   /\ \A c \in challenges : c.id = loc[p].challenge => ~c.used
    /\ \A c \in challenges :
          c.used => <<c.link_token, c.challenge_nonce>> \in consumed

\* A bad signature has just been refused and the nonce can still be looked up
C3_Witness ==
    \E p \in Procs :
        /\ ChallengeAttempt(p) /\ ~CorrectSignature(p) /\ Rejected401(p)
        /\ loc[p].challenge # None
        /\ get_challenge(req[p].link_token, req[p].challenge) = loc[p].challenge

\* C5: a challenge expires 300 s after it is issued, and a request whose lookup runs
\* at or after the expiry of every challenge issued with its nonce for its identity
\* is never authenticated and is answered 401, whatever its signature
IssuedFor(link_token, nonce) ==
    {c \in issued : c.link_token = link_token /\ c.challenge_nonce = nonce}

LookedUpAfterExpiry(p) ==
    /\ ChallengeAttempt(p)
    /\ pc[p] # "auth_get_challenge"
    /\ \A c \in IssuedFor(req[p].link_token, req[p].challenge) : c.expires_at <= loc[p].looked_at

C5_ExpiredNeverAuthenticates ==
    /\ \A c \in issued : c.expires_at = c.created_at + 300
    /\ \A p \in Procs : LookedUpAfterExpiry(p) => Rejected401(p)

\* A never-used, expired nonce with the correct signature is refused
C5_Witness ==
    \E p \in Procs :
        /\ LookedUpAfterExpiry(p) /\ CorrectSignature(p) /\ Rejected401(p)
        /\ IssuedFor(req[p].link_token, req[p].challenge) # {}
        /\ <<req[p].link_token, req[p].challenge>> \notin consumed

\* C7: on every authenticated endpoint, for a well-formed request of a registered
\* identity: with neither credential the answer is 401; with both a (nonce,
\* signature) pair and a Bearer token only the challenge-response branch decides:
\* the request is authenticated iff a valid challenge was found and the signature
\* verifies, whatever the Bearer token is; a failure is answered 401 and a success
\* marks the challenge used
BothSupplied(p) ==
    /\ req[p].ep \in AuthEndpoints
    /\ loc[p].client # None
    /\ req[p].challenge # None /\ req[p].challenge_signature # NoSig
    /\ req[p].bearer # None

NeitherSupplied(p) ==
    /\ req[p].ep \in AuthEndpoints
    /\ loc[p].client # None
    /\ req[p].challenge = None \/ req[p].challenge_signature = NoSig
    /\ req[p].bearer = None

C7_ChallengeTakesPrecedence ==
    \A p \in Procs :
        /\ NeitherSupplied(p) =>
              /\ Rejected401(p)
              /\ resp[p].error \in {"Authentication failed",
                                    "Authentication required (challenge_signature or Authorization header)"}
        /\ (BothSupplied(p) /\ pc[p] # "auth_get_challenge") =>
              /\ loc[p].method = "challenge"
              /\ loc[p].authenticated <=> (loc[p].challenge # None /\ CorrectSignature(p))
              /\ ~loc[p].authenticated => Rejected401(p)
              /\ (loc[p].authenticated /\ pc[p] # "auth_mark_used") =>
                    /\ <<req[p].link_token, req[p].challenge>> \in consumed
                    /\ \A c \in challenges : c.id = loc[p].challenge => c.used

\* A wrong signature next to the identity's own fetch token is refused
C7_Witness ==
    \E p \in Procs :
        /\ BothSupplied(p) /\ Rejected401(p)
        /\ loc[p].challenge # None /\ ~CorrectSignature(p)
        /\ verify_fetch_token(req[p].link_token, req[p].bearer)

\* ------------------------------------------------------------ claims: several identities
\* C4: a request is authenticated through challenge-response only if a challenge
\* was issued for its link_token with its nonce, that challenge is the one looked
\* up, the lookup ran before its expiry, the pair had not authenticated before, and
\* the signature is the one of the identity's stored key; no challenge issued for
\* a different identity bears the nonce
C4_ChallengeAuthSound ==
    \A p \in Procs :
        (ChallengeAttempt(p) /\ loc[p].authenticated) =>
            /\ \E c \in IssuedFor(req[p].link_token, req[p].challenge) :
                  /\ c.id = loc[p].challenge
                  /\ c.created_at <= loc[p].looked_at
                  /\ loc[p].looked_at < c.expires_at
            /\ ~loc[p].replay
            /\ CorrectSignature(p)
            /\ \A d \in issued :
                  d.challenge_nonce = req[p].challenge => d.link_token = req[p].link_token

\* The second identity has authenticated with a nonce of its own
C4_Witness ==
    \E p \in Procs :
        /\ ChallengeAttempt(p) /\ loc[p].authenticated /\ pc[p] = "done"
        /\ req[p].link_token = 2
        /\ <<2, req[p].challenge>> \in consumed

\* C6: verify_fetch_token(L, T) is true exactly when L is registered and T is the
\* fetch token /register returned with L (the one whose hash is stored); it is
\* false for a link_token nobody holds; a request that takes the Bearer branch is
\* authenticated iff its token is the one of the identity it names, and is
\* answered 401 otherwise
C6_VerifyFetchToken ==
    /\ \A l \in LinkInputs(MaxCrossClients) \cup {Bogus} :
          \A t \in {generate_fetch_token(n) : n \in 1..MaxCrossClients} \cup {Bogus} :
              verify_fetch_token(l, t) <=>
                  \E c \in clients : /\ c.link_token = l
                                     /\ c.fetch_token_hash = hash_token(t)
                                     /\ t = FetchTokenOf(l)
    /\ \A p \in Procs :
          (req[p].ep \in AuthEndpoints /\ loc[p].method = "token" /\ pc[p] # "auth_verify_token") =>
              /\ loc[p].authenticated <=> req[p].bearer = FetchTokenOf(req[p].link_token)
              /\ ~loc[p].authenticated => Rejected401(p)

\* The fetch token of one identity has been refused on a request naming another
C6_Witness ==
    \E p \in Procs :
        /\ req[p].ep \in AuthEndpoints /\ loc[p].method = "token" /\ Rejected401(p)
        /\ req[p].bearer \in FetchTokens
        /\ req[p].bearer # FetchTokenOf(req[p].link_token)

\* ------------------------------------------------------------ claims: requests in parallel
\* C2: in every interleaving a nonce authenticates at most one request: a request
\* that has passed the signature check and is about to mark its challenge used
\* holds a pair no request has consumed, and no two requests in flight are
\* authenticated with the same pair
NoncePair(p) == <<req[p].link_token, req[p].challenge>>

C2_NonceAuthenticatesOnce ==
    \A p \in Procs :
        (ChallengeAttempt(p) /\ loc[p].authenticated) =>
            /\ pc[p] = "auth_mark_used" => NoncePair(p) \notin consumed
            /\ \A q \in Procs \ {p} :
                  (ChallengeAttempt(q) /\ loc[q].authenticated) => NoncePair(q) # NoncePair(p)

\* ------------------------------------------------------------ claims: rate limits
\* The challenges issued for link_token that have neither authenticated a request
\* nor expired, and the age of the one issued last, from the history of issuance
OutstandingIssued(link_token) ==
    {c \in issued : /\ c.link_token = link_token
                    /\ <<c.link_token, c.challenge_nonce>> \notin consumed
                    /\ now < c.expires_at}

IssuedRecently(link_token) ==
    \E c \in issued : c.link_token = link_token /\ now - c.created_at < 3

Issuing(p) ==
    /\ req[p].ep = "challenge_request"
    /\ loc[p].client # None
    /\ pc[p] # "cr_count"

C9_BothWitness ==
    \E p \in Procs :
        /\ Issuing(p) /\ loc[p].cnt >= 5 /\ loc[p].recent
        /\ resp[p] = Resp(429, "Too many outstanding challenges")

\* ------------------------------------------------------------ claims: the permission ledger
HasPermission(a, b) ==
    \E r \in message_requests :
        r.from_link_token = a /\ r.to_link_token = b /\ r.status = "accepted"

\* The step of p is the UPDATE of a /respond_message_request that bears b's own
\* fetch token, was authenticated, and accepts a request from a to b
AcceptBy(p, a, b) ==
    /\ pc[p] = "respond_update" /\ pc'[p] = "done"
    /\ req[p].ep = "respond_message_request"
    /\ req[p].link_token = b
    /\ req[p].bearer = FetchTokenOf(b)
    /\ loc[p].authenticated
    /\ req[p].action = "accept"

\* The request p responds to is a request from a to b with that status
RespondsTo(p, a, b, status) ==
    \E r \in message_requests :
        /\ r.id = req[p].request_id
        /\ r.from_link_token = a /\ r.to_link_token = b
        /\ r.status = status

\* C10: HasPermission(A, B) becomes true only by the status update of a
\* /respond_message_request authenticated as B that accepts a request from A to B,
\* and that request is pending when the update is applied; no step of
\* /request_message_permission, of /send or of a rejecting response makes it true
C10_PermissionOnlyByAccept ==
    [][\A a \in PermLinks, b \in PermLinks :
          (~HasPermission(a, b) /\ HasPermission(a, b)') =>
              \E p \in Procs : AcceptBy(p, a, b) /\ RespondsTo(p, a, b, "pending")]_vars

\* What holds in every interleaving: the update is an accept authenticated as B of
\* a request from A to B that the handler read as pending, whatever the status of
\* the row has become since
PermissionOnlyByAuthenticatedAccept ==
    [][\A a \in PermLinks, b \in PermLinks :
          (~HasPermission(a, b) /\ HasPermission(a, b)') =>
              \E p \in Procs :
                  /\ AcceptBy(p, a, b)
                  /\ loc[p].request_status = "pending"
                  /\ \E status \in {"pending", "rejected"} : RespondsTo(p, a, b, status)]_vars

\* C11: once HasPermission(A, B) is true it stays true in every later state,
\* whatever /request_message_permission, /respond_message_request and /send steps
\* follow and however they interleave: no step revokes an accepted permission
C11_PermissionNeverRevoked ==
    [][\A a \in PermLinks, b \in PermLinks :
          HasPermission(a, b) => HasPermission(a, b)']_vars

\* C13: the status of a permission request only moves from pending to accepted or
\* from pending to rejected; a request that is accepted or rejected keeps its
\* status, also when two responses to it interleave their check and their update
C13_StatusTerminal ==
    [][\A r \in message_requests :
          \E s \in message_requests' :
              /\ s.id = r.id
              /\ s.status # r.status =>
                    r.status = "pending" /\ s.status \in {"accepted", "rejected"}]_vars

\* The request p responds to is a request from a to b, whatever its status
RespondsToPair(p, a, b) ==
    \E r \in message_requests :
        r.id = req[p].request_id /\ r.from_link_token = a /\ r.to_link_token = b

\* C12: permission is not symmetric. The accept of a request from A to B leaves
\* HasPermission(B, A) as it was, and HasPermission(B, A) becomes true only when
\* A accepts a request of its own from B to A
C12_PermissionNotSymmetric ==
    [][\A a \in PermLinks :
          \A b \in PermLinks \ {a} :
              /\ (\E p \in Procs : AcceptBy(p, a, b) /\ RespondsToPair(p, a, b)) =>
                     (HasPermission(b, a)' <=> HasPermission(b, a))
              /\ (~HasPermission(b, a) /\ HasPermission(b, a)') =>
                     \E p \in Procs : AcceptBy(p, b, a) /\ RespondsToPair(p, b, a)]_vars

\* A's request to B is accepted while B's own request to A is still pending: A may
\* send to B, B may not send to A
C12_Witness ==
    \E r \in message_requests, s \in message_requests :
        /\ r.from_link_token = s.to_link_token /\ r.to_link_token = s.from_link_token
        /\ r.from_link_token # r.to_link_token
        /\ r.status = "accepted" /\ s.status = "pending"
        /\ HasPermission(r.from_link_token, r.to_link_token)
        /\ ~HasPermission(s.from_link_token, s.to_link_token)

\* Both directions are permitted, each by a request of its own
C12_BothWitness ==
    \E r \in message_requests, s \in message_requests :
        /\ r.id # s.id
        /\ r.from_link_token = s.to_link_token /\ r.to_link_token = s.from_link_token
        /\ r.status = "accepted" /\ s.status = "accepted"

\* The /respond_message_request of p has been authenticated and reads the request
RespondReads(p) ==
    /\ pc[p] = "respond_get_request" /\ pc'[p] # "respond_get_request"
    /\ req[p].ep = "respond_message_request"
    /\ loc[p].authenticated

NotFound == Resp(404, "Request not found")
Forbidden == Resp(403, "Unauthorized - this request is not for you")
AlreadyProcessed == Resp(400, "Request already processed")

\* C14: an authenticated response to a request id fails with NotFound when no
\* request has that id, else with Forbidden when the request is addressed to
\* somebody else, else with AlreadyProcessed when its status is not pending; only a
\* pending request addressed to the responder goes on to the update, and a failing
\* response changes no permission record
C14_RespondFailures ==
    [][\A p \in Procs :
          RespondReads(p) =>
              LET rows == RequestRows(req[p].request_id)
                  mine == {r \in rows : r.to_link_token = req[p].link_token}
                  open == {r \in mine : r.status = "pending"}
              IN  /\ resp'[p] = IF rows = {} THEN NotFound
                                ELSE IF mine = {} THEN Forbidden
                                ELSE IF open = {} THEN AlreadyProcessed
                                ELSE NoResp
                  /\ pc'[p] = IF open = {} THEN "done" ELSE "respond_update"
                  /\ message_requests' = message_requests]_vars

\* A request addressed to somebody else that is already processed: Forbidden
\* answers before AlreadyProcessed
C14_Witness ==
    \E p \in Procs, r \in message_requests :
        /\ pc[p] = "done" /\ req[p].ep = "respond_message_request" /\ loc[p].authenticated
        /\ r.id = req[p].request_id
        /\ r.to_link_token # req[p].link_token
        /\ r.status # "pending"
        /\ resp[p] = Forbidden

C14_NotFoundWitness ==
    \E p \in Procs :
        /\ pc[p] = "done" /\ req[p].ep = "respond_message_request" /\ loc[p].authenticated
        /\ RequestRows(req[p].request_id) = {}
        /\ resp[p] = NotFound

C14_ProcessedWitness ==
    \E p \in Procs, r \in message_requests :
        /\ pc[p] = "done" /\ req[p].ep = "respond_message_request" /\ loc[p].authenticated
        /\ r.id = req[p].request_id
        /\ r.to_link_token = req[p].link_token
        /\ r.status = "rejected" /\ req[p].action = "accept"
        /\ resp[p] = AlreadyProcessed

\* p serves a /request_message_permission between two registered identities
RequestBetweenRegistered(p) ==
    /\ req[p].ep = "request_message_permission"
    /\ req[p].from_link_token \in Registered
    /\ req[p].link_token \in Registered

AlreadyGranted == RespData(200, "Permission already granted", "accepted")

\* C15: a /request_message_permission from A to B made when an accepted record
\* for (A, B) exists is answered 200 'Permission already granted' with status
\* accepted, never reaches the INSERT and leaves the ledger as it was
C15_AlreadyGranted ==
    /\ [](\A p \in Procs :
             RequestBetweenRegistered(p) /\ HasPermission(req[p].from_link_token, req[p].link_token) =>
                 /\ pc[p] # "rp_create"
                 /\ pc[p] = "done" => resp[p] = AlreadyGranted)
    /\ [][\A p \in Procs :
             (/\ RequestBetweenRegistered(p)
              /\ HasPermission(req[p].from_link_token, req[p].link_token)
              /\ pc'[p] # pc[p]) => message_requests' = message_requests]_vars

\* The answer 'already granted' to a second request of a pair whose first request
\* was accepted: the ledger still holds that one row for the pair
C15_Witness ==
    \E p \in Procs :
        /\ pc[p] = "done" /\ RequestBetweenRegistered(p)
        /\ resp[p] = AlreadyGranted
        /\ Cardinality({r \in message_requests :
                           /\ r.from_link_token = req[p].from_link_token
                           /\ r.to_link_token = req[p].link_token}) = 1

\* The rows of the ledger for the ordered pair (a, b)
PairRows(a, b) == {r \in message_requests : r.from_link_token = a /\ r.to_link_token = b}

\* The ids a finished /get_message_requests returned
Listed(p) == {resp[p].data[i] : i \in DOMAIN resp[p].data}

\* C16: a /request_message_permission between two registered identities with no
\* accepted record for the pair inserts one new pending row under an id no row had,
\* whether or not pending or rejected rows of the pair exist; the pending list of
\* the recipient shows every pending row of the pair as an entry of its own, and a
\* response to one row leaves every other row as it is
C16_DuplicatePendingAllowed ==
    /\ [](\A p \in Procs :
             (/\ pc[p] = "done" /\ RequestBetweenRegistered(p)
              /\ ~HasPermission(req[p].from_link_token, req[p].link_token)) =>
                 /\ resp[p].status = 201
                 /\ \E r \in PairRows(req[p].from_link_token, req[p].link_token) :
                       /\ r.id = resp[p].data
                       /\ r.status = "pending"
                       /\ \A s \in message_requests \ {r} : s.id # r.id)
    /\ [](\A p \in Procs :
             (pc[p] = "done" /\ req[p].ep = "get_message_requests" /\ loc[p].authenticated) =>
                 /\ Len(resp[p].data) = Cardinality(Listed(p))
                 /\ \A r \in message_requests :
                       (r.to_link_token = req[p].link_token /\ r.status = "pending") =>
                           r.id \in Listed(p))
    /\ [][\A p \in Procs :
             (pc[p] = "rp_create" /\ pc'[p] # "rp_create") =>
                 /\ message_requests \subseteq message_requests'
                 /\ Cardinality(message_requests') = Cardinality(message_requests) + 1]_vars
    /\ [][\A p \in Procs :
             (pc[p] = "respond_update" /\ pc'[p] # "respond_update") =>
                 \A r \in message_requests : r.id # req[p].request_id => r \in message_requests']_vars

\* Two pending requests of one pair are listed as two entries
C16_Witness ==
    \E p \in Procs, r \in message_requests, s \in message_requests :
        /\ pc[p] = "done" /\ req[p].ep = "get_message_requests" /\ loc[p].authenticated
        /\ r.id # s.id
        /\ r.from_link_token = s.from_link_token
        /\ r.to_link_token = req[p].link_token /\ s.to_link_token = req[p].link_token
        /\ r.status = "pending" /\ s.status = "pending"
        /\ {r.id, s.id} \subseteq Listed(p)
        /\ Len(resp[p].data) = 2

\* A request is inserted for a pair that has a rejected and a pending row already
C16_AgainWitness ==
    \E p \in Procs :
        /\ pc[p] = "done" /\ RequestBetweenRegistered(p) /\ resp[p].status = 201
        /\ {r.status : r \in PairRows(req[p].from_link_token, req[p].link_token) \ 
                           {r \in message_requests : r.id = resp[p].data}} = {"pending", "rejected"}

\* One of two duplicates has been accepted, the other one is pending as before
C16_IndependentWitness ==
    \E r \in message_requests, s \in message_requests :
        /\ r.id # s.id
        /\ r.from_link_token = s.from_link_token /\ r.to_link_token = s.to_link_token
        /\ r.status = "accepted" /\ s.status = "pending"

\* The step of p is the SELECT of an authenticated /get_message_requests
PendingReturns(p) ==
    /\ pc[p] = "get_pending_requests" /\ pc'[p] = "done"
    /\ req[p].ep = "get_message_requests"
    /\ loc[p].authenticated

\* The permission requests addressed to `to` that are pending
PendingFor(to) == {r \in message_requests : r.to_link_token = to /\ r.status = "pending"}

\* C17: the pending list of an identity holds exactly the requests addressed to it
\* whose status is pending, each once, the most recently created first (ids are
\* given in order of creation); accepted and rejected requests and requests
\* addressed to others are not in it
C17_PendingMostRecentFirst ==
    [][\A p \in Procs :
          PendingReturns(p) =>
              LET out == resp'[p].data
              IN  /\ resp'[p].status = 200
                  /\ Len(out) = Cardinality(PendingFor(req[p].link_token))
                  /\ {out[i] : i \in DOMAIN out} = {r.id : r \in PendingFor(req[p].link_token)}
                  /\ \A i \in DOMAIN out, j \in DOMAIN out : i < j => out[i] > out[j]]_vars

\* What holds: the same rows, each once, by created_at descending; two requests
\* made within the same second come in either order
PendingByTimestamp ==
    [][\A p \in Procs :
          PendingReturns(p) =>
              LET out == resp'[p].data
                  at(id) == (CHOOSE r \in message_requests : r.id = id).created_at
              IN  /\ resp'[p].status = 200
                  /\ Len(out) = Cardinality(PendingFor(req[p].link_token))
                  /\ {out[i] : i \in DOMAIN out} = {r.id : r \in PendingFor(req[p].link_token)}
                  /\ \A i \in DOMAIN out, j \in DOMAIN out : i < j => at(out[i]) >= at(out[j])]_vars

\* Requests made in different seconds are listed the latest first
PendingOrderedWitness ==
    \E p \in Procs :
        /\ pc[p] = "done" /\ req[p].ep = "get_message_requests" /\ loc[p].authenticated
        /\ resp[p].data = <<2, 1>>
        /\ \E r \in message_requests, s \in message_requests :
              r.id = 1 /\ s.id = 2 /\ r.created_at < s.created_at

\* ------------------------------------------------------------ claims: sending
\* p has served a /send that names a recipient
SendDone(p) == pc[p] = "done" /\ req[p].ep = "send" /\ req[p].link_token # None

\* The number of bytes a well-formed base64 text stands for
DecodedBytes(text) == 3 * (text.chars \div 4) - text.pad

\* The payload and the metadata of p's /send pass the encoding and size checks
WellFormed(p) ==
    /\ req[p].encrypted_message.valid
    /\ DecodedBytes(req[p].encrypted_message) <= 16 * 1024
    /\ req[p].metadata_len <= MaxMetadataChars

\* The message p's /send stored: the id it answered, the recipient and text it sent
Stored(p) ==
    /\ resp[p].status = 201
    /\ \E m \in messages : /\ m.id = resp[p].data
                           /\ m.link_token = req[p].link_token
                           /\ m.encrypted_message = req[p].encrypted_message

PermissionDenied == Resp(403, "Permission denied. Please request permission first.")

C18_DeniedWitness ==
    \E p \in Procs :
        /\ SendDone(p) /\ req[p].from_link_token \in Registered /\ resp[p] = PermissionDenied
        /\ \E r \in message_requests : /\ r.from_link_token = req[p].from_link_token
                                       /\ r.to_link_token = req[p].link_token
                                       /\ r.status \in {"pending", "rejected"}

\* The ledger holds a pending or rejected request that involves identity t
LedgerInvolves(t) ==
    \E r \in message_requests :
        /\ t \in {r.from_link_token, r.to_link_token}
        /\ r.status \in {"pending", "rejected"}

\* C19: a /send without from_link_token to a registered recipient T, with a valid
\* payload and metadata within the limits, is answered 201 and the message is in
\* T's mailbox, whatever the permission ledger holds
C19_AnonymousSendStored ==
    \A p \in Procs :
        (/\ SendDone(p) /\ req[p].from_link_token = None
         /\ req[p].link_token \in Registered
         /\ WellFormed(p)) => Stored(p)

\* An anonymous message is stored for T while a request that involves T is pending
\* or rejected and nobody has permission to send to T
C19_Witness ==
    \E p \in Procs :
        /\ SendDone(p) /\ req[p].from_link_token = None /\ Stored(p)
        /\ LedgerInvolves(req[p].link_token)
        /\ \A a \in PermLinks : ~HasPermission(a, req[p].link_token)

\* The same with an empty ledger
C19_EmptyLedgerWitness ==
    \E p \in Procs :
        /\ SendDone(p) /\ req[p].from_link_token = None /\ Stored(p)
        /\ message_requests = {}

PayloadTooLarge == Resp(413, "Encrypted message too large (max 16KB)")

\* C20: a payload that decodes to exactly 16384 bytes is accepted, a payload that
\* decodes to more is rejected with 413 'Encrypted message too large', and no other
\* payload is; the length compared is that of the decoded bytes, so a text of more
\* than 16384 characters that decodes to 16384 bytes or fewer is accepted
C20_PayloadLimit ==
    \A p \in Procs :
        (SendDone(p) /\ req[p].encrypted_message.valid) =>
            /\ resp[p] = PayloadTooLarge <=> DecodedBytes(req[p].encrypted_message) > 16384
            /\ (/\ DecodedBytes(req[p].encrypted_message) <= 16384
                /\ req[p].metadata_len <= MaxMetadataChars
                /\ req[p].link_token \in Registered
                /\ req[p].from_link_token = None) => Stored(p)

\* A payload of exactly 16384 bytes, whose base64 text has 21848 characters, is stored
C20_Witness ==
    \E p \in Procs :
        /\ SendDone(p) /\ Stored(p)
        /\ DecodedBytes(req[p].encrypted_message) = 16384
        /\ req[p].encrypted_message.chars = 21848

\* A payload of 16385 bytes is rejected
C20_OverWitness ==
    \E p \in Procs :
        /\ SendDone(p) /\ resp[p] = PayloadTooLarge
        /\ DecodedBytes(req[p].encrypted_message) = 16385

\* ------------------------------------------------------------ claims: reading the mailbox
\* /fetch has authenticated its caller and has answered
FetchDone(p) == pc[p] = "done" /\ req[p].ep = "fetch" /\ loc[p].authenticated

\* A 200 answer of /fetch carries the page: the ids of 'data' in the order
\* returned, 'has_more' and 'next_cursor' (None when the key is absent)
FetchOk(p) == resp[p].status = 200
PageIds(p) == resp[p].data.ids
PageSet(p) == {PageIds(p)[i] : i \in 1..Len(PageIds(p))}

\* The ids of the messages of the request's identity that pass its filters
Matching(r) ==
    {m.id : m \in {n \in messages :
                      /\ n.link_token = r.link_token
                      /\ (r.include_seen \/ ~n.seen)
                      /\ (r.before_id # None => n.id < r.before_id)
                      /\ (r.since_id # None => n.id > r.since_id)}}

\* The limit that bounds the page: the request's, clamped to [1, 200]
EffectiveLimit(r) ==
    IF r.limit < 1 THEN 1 ELSE IF r.limit > 200 THEN 200 ELSE r.limit

\* a comes before b in the order the request asks for
Before(r, a, b) == IF r.order = "ASC" THEN a < b ELSE a > b

\* C21: an authenticated /fetch for an identity answers with messages of that
\* identity only, and among them exactly those that pass the filters of the
\* request (unseen unless include_seen, id < before_id, id > since_id, together
\* when both are given), as far as the limit of the page allows
C21_FetchFilters ==
    \A p \in Procs :
        FetchDone(p) =>
            /\ FetchOk(p)
            /\ PageSet(p) \subseteq Matching(req[p])
            /\ (Len(PageIds(p)) < EffectiveLimit(req[p]) => PageSet(p) = Matching(req[p]))

\* C22: the rows of an authenticated /fetch are sorted by id, ascending when
\* order is "ASC" and descending for every other value, which is no error
C22_FetchOrder ==
    \A p \in Procs :
        FetchDone(p) =>
            /\ FetchOk(p)
            /\ \A i, j \in 1..Len(PageIds(p)) :
                  i < j => Before(req[p], PageIds(p)[i], PageIds(p)[j])

\* C23: an authenticated /fetch returns at most the limit clamped to [1, 200]
\* (50 by default) rows: the first of the matching rows in the requested order,
\* none skipped
C23_FetchLimit ==
    \A p \in Procs :
        FetchDone(p) =>
            /\ FetchOk(p)
            /\ Len(PageIds(p)) <= EffectiveLimit(req[p])
            /\ (Len(PageIds(p)) < EffectiveLimit(req[p])
                   => Len(PageIds(p)) = Cardinality(Matching(req[p])))
            /\ \A a \in PageSet(p) :
                  \A b \in Matching(req[p]) \ PageSet(p) : Before(req[p], a, b)

\* C24: an authenticated /fetch reports has_more exactly when it returns as many
\* rows as the clamped limit, and next_cursor is the id of its last row whenever
\* it returns a row
C24_HasMoreAndCursor ==
    \A p \in Procs :
        FetchDone(p) =>
            /\ FetchOk(p)
            /\ resp[p].data.has_more = (Len(PageIds(p)) = EffectiveLimit(req[p]))
            /\ (Len(PageIds(p)) > 0
                   => resp[p].data.next_cursor = PageIds(p)[Len(PageIds(p))])

\* The page a descending walk expects next: the messages below the cursor (all
\* of them on the first page), highest id first, as many as the limit allows
Remaining(r) == Matching([r EXCEPT !.since_id = None])

\* C25: a descending walk of the mailbox by cursor visits every message once:
\* each page (the first one, and every page asked with before_id = the previous
\* next_cursor) starts at the highest matching id below the cursor, goes down
\* without leaving a matching id out, and reports has_more and a next_cursor
\* unless it reaches the lowest id; messages stored meanwhile have higher ids
\* and do not disturb it
C25_CursorPagination ==
    \A p \in Procs :
        (FetchDone(p) /\ req[p].order = "DESC" /\ req[p].since_id = None) =>
            /\ FetchOk(p)
            /\ \A i \in 1..Len(PageIds(p)) :
                  Cardinality({b \in Remaining(req[p]) : b > PageIds(p)[i]}) = i - 1
            /\ (Remaining(req[p]) # {} => Len(PageIds(p)) > 0)
            /\ (Len(PageIds(p)) > 0 /\ PageSet(p) # Remaining(req[p])
                   => /\ resp[p].data.has_more
                      /\ resp[p].data.next_cursor = PageIds(p)[Len(PageIds(p))]
                      /\ Len(PageIds(p)) = EffectiveLimit(req[p]))

\* ------------------------------------------------------------ claims: the mailbox
\* /ack has authenticated its caller and runs its update in this step
AckActs(p) == pc[p] = "ack_mark_seen" /\ pc'[p] = "done"

\* The rows the acknowledgement of p is about: listed, and addressed to its identity
Acked(p, m) == m.id \in req[p].message_ids /\ m.link_token = req[p].link_token

\* n is the row m with its seen flag set to flag
SameBut(m, n, flag) == n = [m EXCEPT !.seen = flag]

\* C26: an acknowledgement by identity L of a set of ids sets seen on exactly the
\* rows of L whose id is listed; the rows of other identities (listed or not),
\* the rows not listed and every other table are as before, no row appears for an
\* id no message has, and the call succeeds, also with no id at all
C26_MarkSeenScoped ==
    [][\A p \in Procs :
          AckActs(p) =>
             /\ \A m \in messages :
                   \E n \in messages' : SameBut(m, n, m.seen \/ Acked(p, m))
             /\ Cardinality(messages') = Cardinality(messages)
             /\ UNCHANGED <<clients, challenges, message_requests>>
             /\ resp'[p].status = 200]_vars

\* An acknowledgement has succeeded that listed a message of its identity (now
\* seen), a message of the other identity (still unseen) and an id no message has
C26_Witness ==
    \E p \in Procs :
        /\ pc[p] = "done" /\ req[p].ep = "ack" /\ resp[p].status = 200
        /\ \E m, n \in messages :
              /\ Acked(p, m) /\ m.seen
              /\ n.id \in req[p].message_ids /\ n.link_token # req[p].link_token /\ ~n.seen
        /\ \E id \in req[p].message_ids : \A m \in messages : m.id # id

\* An acknowledgement of no id has succeeded while its identity holds an unseen message
C26_EmptyWitness ==
    \E p \in Procs :
        /\ pc[p] = "done" /\ req[p].ep = "ack" /\ resp[p].status = 200
        /\ loc[p].authenticated
        /\ req[p].message_ids = {}
        /\ \E m \in messages : m.link_token = req[p].link_token /\ ~m.seen

MessageIds == {m.id : m \in messages}

\* C27: a message is unseen when it is stored, and a message that is seen stays
\* seen through every step
C27_SeenMonotone ==
    [][/\ \A n \in messages' : n.id \notin MessageIds => ~n.seen
       /\ \A m \in messages :
             m.seen => \E n \in messages' : n.id = m.id /\ n.seen]_vars

\* A message has been seen, and after that it was acknowledged again or another
\* message was stored
C27_Witness ==
    \E m \in messages :
        /\ m.seen
        /\ \E p \in Procs :
              /\ pc[p] = "done"
              /\ \/ req[p].ep = "send" /\ resp[p].status = 201 /\ resp[p].data > m.id
                 \/ req[p].ep = "ack" /\ resp[p].status = 200 /\ req[p].message_ids = {}

\* C28: the mailbox is append-only and its ids grow: through every step each
\* stored message is still there with its id, recipient and payload, a new
\* message has an id above every id stored before, and no two messages share an id
C28_AppendOnly ==
    [][/\ \A m \in messages :
             \E n \in messages' : /\ n.id = m.id
                                  /\ n.link_token = m.link_token
                                  /\ n.encrypted_message = m.encrypted_message
                                  /\ n.metadata_len = m.metadata_len
       /\ \A n \in messages' :
             n.id \notin MessageIds => \A m \in messages : m.id < n.id
       /\ \A m, n \in messages' : m.id = n.id => m = n]_vars

\* A second message has been stored, to the other identity, after the first one
\* was acknowledged
C28_Witness ==
    \E p \in Procs :
        /\ pc[p] = "done" /\ req[p].ep = "send" /\ resp[p].status = 201
        /\ \E m, n \in messages :
              /\ n.id = resp[p].data
              /\ m.id < n.id
              /\ m.link_token # n.link_token
              /\ m.seen

\* ------------------------------------------------------------ claims: the store unavailable
\* The answer tells that the store is unavailable: a server error, never a
\* success, an empty result, 'not found' or 'unauthorized'
StoreUnavailable(r) == r.status >= 500

Operations ==
    {"register", "send", "challenge_request", "fetch", "ack", "check_contact",
     "request_message_permission", "get_message_requests", "respond_message_request"}

\* C29: while the database is not connected, every request of every endpoint
\* that passes the checks of its body is answered with an explicit
\* store-unavailable failure
C29_StoreUnavailable ==
    \A p \in Procs :
        (/\ ~connected
         /\ pc[p] = "done"
         /\ req[p].ep \in Operations
         /\ resp[p].status \notin {400, 413})
            => StoreUnavailable(resp[p])

\* The part the code delivers: with the database not connected a well-formed
\* /register is answered 500 'Database connection not available'
RegisterUnavailable ==
    \A p \in Procs :
        (/\ ~connected
         /\ pc[p] = "done"
         /\ req[p].ep = "register"
         /\ resp[p].status \notin {400, 413})
            => resp[p] = Resp(500, "Database connection not available")

\* ------------------------------------------------------------ claims: registration
\* /register answers in this step
RegisterActs(p) == pc[p] = "idle" /\ pc'[p] = "done" /\ req'[p].ep = "register"

\* The identity c is new: its tokens are those of no identity registered before
Fresh(c) ==
    \A d \in clients : /\ d.id # c.id
                       /\ d.link_token # c.link_token
                       /\ d.fetch_token_hash # c.fetch_token_hash

\* C30: /register refuses a key_type other than ed25519 (unsupported key type)
\* and, for ed25519, a public key that is not a valid 32-byte key (invalid key),
\* and creates no identity then; a registration that succeeds adds exactly one
\* identity, with the key presented and with a link token and a fetch token no
\* earlier identity has; and with the store available a valid key succeeds also
\* when an identity with the same key exists
C30_Register ==
    [][\A p \in Procs :
          RegisterActs(p) =>
             /\ req'[p].key_type # "ed25519"
                   => /\ resp'[p] = Resp(400, "Unsupported key_type. Only ed25519 is supported.")
                      /\ UNCHANGED clients
             /\ (req'[p].key_type = "ed25519" /\ req'[p].public_key \notin Keys)
                   => /\ resp'[p] = Resp(400, "Invalid public key format")
                      /\ UNCHANGED clients
             /\ resp'[p].status = 201
                   => \E c \in clients' :
                         /\ c \notin clients
                         /\ clients' = clients \cup {c}
                         /\ c.public_key = req'[p].public_key
                         /\ Fresh(c)
                         /\ c.fetch_token_hash = <<"sha256", resp'[p].data>>
             /\ resp'[p].status # 201 => UNCHANGED clients
             /\ (connected /\ req'[p].key_type = "ed25519" /\ req'[p].public_key \in Keys)
                   => resp'[p].status = 201]_vars

\* A public key has been registered a second time: two identities hold it, with
\* different link tokens and fetch tokens
C30_Witness ==
    \E p \in Procs :
        /\ pc[p] = "done" /\ req[p].ep = "register" /\ resp[p].status = 201
        /\ \E c, d \in clients :
              /\ c.id # d.id
              /\ c.public_key = req[p].public_key
              /\ d.public_key = req[p].public_key
              /\ c.link_token # d.link_token
              /\ c.fetch_token_hash # d.fetch_token_hash

\* Both refusals have happened with an identity registered: an unsupported key
\* type, and an invalid key of the supported type
C30_UnsupportedWitness ==
    \E p \in Procs :
        /\ pc[p] = "done" /\ req[p].ep = "register" /\ req[p].key_type = "rsa"
        /\ req[p].public_key \in Keys
        /\ resp[p].status = 400 /\ Cardinality(clients) = 1

C30_InvalidKeyWitness ==
    \E p \in Procs :
        /\ pc[p] = "done" /\ req[p].ep = "register" /\ req[p].key_type = "ed25519"
        /\ req[p].public_key = InvalidKey
        /\ resp[p].status = 400 /\ Cardinality(clients) = 1

\* ------------------------------------------------------------ claims: identities
\* C31: no two identities share a link_token in any reachable state, and through
\* every step each registered identity is still there with the same link_token,
\* public key, key type and fetch_token_hash
C31_IdentitiesImmutable ==
    /\ [](\A c, d \in clients : c.link_token = d.link_token => c = d)
    /\ [][\A c \in clients :
             \E d \in clients' : /\ d.id = c.id
                                 /\ d.link_token = c.link_token
                                 /\ d.public_key = c.public_key
                                 /\ d.key_type = c.key_type
                                 /\ d.fetch_token_hash = c.fetch_token_hash]_vars

\* Two identities are registered and one of them has since authenticated a request
C31_Witness ==
    /\ Cardinality(clients) = 2
    /\ \E p \in Procs :
          /\ pc[p] = "done" /\ req[p].ep \in AuthEndpoints /\ loc[p].authenticated

\* ------------------------------------------------------------ claims: what a failure tells
\* The request of p named a registered identity, presented a credential (a
\* challenge with a signature, or a bearer token) and was refused for it
AuthRefused(p) ==
    /\ pc[p] = "done"
    /\ req[p].ep \in AuthEndpoints
    /\ loc[p].client # None
    /\ loc[p].method \in {"challenge", "token"}
    /\ ~loc[p].authenticated

\* C32: two refused authentications for the same identity at the same endpoint
\* are answered alike, whichever factor failed (the nonce unknown, expired or
\* used; the signature wrong; the bearer token wrong): same status, same reason
C32_FailuresIndistinguishable ==
    \A p, q \in Procs :
        (/\ AuthRefused(p) /\ AuthRefused(q)
         /\ req[p].ep = req[q].ep
         /\ req[p].link_token = req[q].link_token)
            => /\ resp[p].status = resp[q].status
               /\ resp[p].error = resp[q].error

\* The part the code delivers: the same, for every endpoint but /fetch
UniformOutsideFetch ==
    \A p, q \in Procs :
        (/\ AuthRefused(p) /\ AuthRefused(q)
         /\ req[p].ep = req[q].ep /\ req[p].ep # "fetch"
         /\ req[p].link_token = req[q].link_token)
            => /\ resp[p].status = resp[q].status
               /\ resp[p].error = resp[q].error

\* Two refusals at /ack stand side by side: a wrong signature and a wrong token
UniformWitness ==
    \E p, q \in Procs :
        /\ AuthRefused(p) /\ AuthRefused(q)
        /\ req[p].ep = "ack" /\ req[q].ep = "ack"
        /\ loc[p].method = "challenge" /\ loc[p].challenge # None
        /\ loc[q].method = "token"

\* ------------------------------------------------------------ claims: the gated writes
\* The request of p presents the credential of the identity it names: the fetch
\* token that identity was given, or a challenge issued to it, unexpired and
\* unused when looked up, signed with its key
HoldsCredential(p) ==
    \E c \in clients :
        /\ c.link_token = req[p].link_token
        /\ \/ /\ loc[p].method = "token"
              /\ c.fetch_token_hash = <<"sha256", req[p].bearer>>
           \/ /\ loc[p].method = "challenge"
              /\ req[p].challenge_signature = [key |-> c.public_key, msg |-> req[p].challenge]
              /\ \E ch \in issued : /\ ch.link_token = c.link_token
                                    /\ ch.challenge_nonce = req[p].challenge

\* p is an /ack that writes in this step, q a /respond_message_request that does
AckWrites(p) == pc[p] = "ack_mark_seen" /\ pc'[p] = "done" /\ req[p].ep = "ack"
RespondWrites(p) ==
    pc[p] = "respond_update" /\ pc'[p] = "done" /\ req[p].ep = "respond_message_request"

\* C33: a message becomes seen only in a step of an /ack that names the
\* message's recipient, holds that recipient's credential and lists the
\* message's id; the status of a permission request changes only in a step of a
\* /respond_message_request that names the request's addressee, holds the
\* addressee's credential and names the request's id; no other step, and no
\* call that failed authentication, changes either
C33_GatedWrites ==
    [][/\ \A m \in messages :
             (~m.seen /\ \E n \in messages' : n.id = m.id /\ n.seen)
                => \E p \in Procs : /\ AckWrites(p)
                                    /\ req[p].link_token = m.link_token
                                    /\ m.id \in req[p].message_ids
                                    /\ HoldsCredential(p)
       /\ \A r \in message_requests :
             (\E t \in message_requests' : t.id = r.id /\ t.status # r.status)
                => \E p \in Procs : /\ RespondWrites(p)
                                    /\ req[p].link_token = r.to_link_token
                                    /\ req[p].request_id = r.id
                                    /\ HoldsCredential(p)]_vars

\* Both gated writes have happened: a message is seen, a request is processed
C33_Witness ==
    /\ \E m \in messages : m.seen
    /\ \E r \in message_requests : r.status # "pending"

\* A call with the other identity's token was refused while the row it aimed at
\* is untouched
C33_RefusedWitness ==
    \E p \in Procs :
        /\ pc[p] = "done" /\ req[p].ep = "ack" /\ resp[p].status = 401
        /\ req[p].bearer \in FetchTokens
        /\ \E m \in messages :
              m.id \in req[p].message_ids /\ m.link_token = req[p].link_token /\ ~m.seen

\* ------------------------------------------------------------ claims: rejected sends
\* p is a /send and takes a step
SendActs(p) == req'[p].ep = "send" /\ pc'[p] # pc[p] /\ pc'[p] # "idle"

\* C34: a /send that is rejected (invalid base64, payload or metadata too
\* large, recipient or sender unknown, permission denied) appends no message and
\* leaves the permission ledger as it was: none of its steps writes, and only a
\* send that is answered 201 has stored a row
C34_RejectedSendWritesNothing ==
    [][\A p \in Procs :
          SendActs(p) =>
             /\ UNCHANGED message_requests
             /\ (pc'[p] = "done" /\ resp'[p].status = 201)
                   \/ UNCHANGED messages
             /\ (pc'[p] = "done" /\ resp'[p].status # 201)
                   => /\ resp'[p].status \in {400, 404, 403, 413}
                      /\ \A m \in messages' : m \in messages]_vars

\* A send is denied while the mailbox holds a message and the ledger a request
C34_Witness ==
    \E p \in Procs :
        /\ SendDone(p) /\ resp[p] = PermissionDenied
        /\ messages # {} /\ message_requests # {}

\* Sends rejected for their payload or metadata, and for an unknown identity
C34_TooLargeWitness ==
    \E p \in Procs : SendDone(p) /\ resp[p].status = 413 /\ message_requests # {}

C34_InvalidWitness ==
    \E p \in Procs : SendDone(p) /\ resp[p].status = 400 /\ message_requests # {}

C34_NotFoundWitness ==
    \E p \in Procs : SendDone(p) /\ resp[p].status = 404 /\ WellFormed(p)

\* ------------------------------------------------------------ claims: the order of the checks of a send
\* C35 as stated: a send to an unknown recipient is answered NotFound and a
\* send from a registered sender without permission to a registered recipient
\* is answered PermissionDenied, whatever its payload and metadata
C35_IdentityBeforeSize ==
    \A p \in Procs :
        SendDone(p) =>
            /\ req[p].link_token \notin Registered => resp[p].status = 404
            /\ (/\ req[p].link_token \in Registered
                /\ req[p].from_link_token \in Registered
                /\ ~HasPermission(req[p].from_link_token, req[p].link_token))
                  => resp[p] = PermissionDenied

\* What the first failing check of a send answers, the checks taken in the
\* order: encoding of the payload, its size, the size of the metadata, the
\* recipient, the sender, the permission
FirstFailure(r) ==
    IF ~r.encrypted_message.valid THEN Resp(400, "Invalid base64 for encrypted_message")
    ELSE IF DecodedBytes(r.encrypted_message) > 16 * 1024 THEN PayloadTooLarge
    ELSE IF r.metadata_len > 4 * 1024 THEN Resp(413, "Metadata too large (max 4KB)")
    ELSE IF r.link_token \notin Registered THEN Resp(404, "Invalid link_token")
    ELSE IF r.from_link_token # None /\ r.from_link_token \notin Registered
         THEN Resp(404, "Invalid from_link_token")
    ELSE IF r.from_link_token # None /\ ~HasPermission(r.from_link_token, r.link_token)
         THEN PermissionDenied
    ELSE NoResp

\* C35 (amended): a send is checked in the order encoding and size of the
\* payload, size of the metadata, recipient, sender, permission, and is answered
\* by the first check that fails; it is stored when none fails
C35_SizeBeforeIdentity ==
    \A p \in Procs :
        SendDone(p) =>
            IF FirstFailure(req[p]) = NoResp THEN Stored(p)
            ELSE resp[p] = FirstFailure(req[p])

\* A payload over the limit sent to a recipient nobody registered is answered 413
C35_Witness ==
    \E p \in Procs :
        /\ SendDone(p) /\ resp[p] = PayloadTooLarge
        /\ req[p].link_token \notin Registered
        /\ clients # {}

\* A well-formed send from a sender without permission is denied
C35_DeniedWitness ==
    \E p \in Procs :
        /\ SendDone(p) /\ resp[p] = PermissionDenied /\ WellFormed(p)
        /\ message_requests # {}

\* ------------------------------------------------------------ claims: failing store calls
\* The /challenge_request of p has answered after one of its statements raised
IssueFailed(p) ==
    pc[p] = "done" /\ req[p].ep = "challenge_request" /\ loc[p].failed

\* C36: a store call that fails inside /challenge_request fails the request: it
\* is answered with an error, and in particular when the read of the outstanding
\* count or of the cooldown fails, no challenge is issued
C36_FailureSurfaced ==
    \A p \in Procs :
        IssueFailed(p) =>
            /\ resp[p].status >= 500
            /\ loc[p].challenge = None

\* The part the code delivers: a failing insert fails the request
InsertFailureSurfaced ==
    \A p \in Procs :
        (IssueFailed(p) /\ loc[p].challenge = None) => resp[p].status >= 500

\* ------------------------------------------------------------ claims: issuance in parallel
\* The unused, unexpired challenges of an identity
OutstandingOf(l) ==
    {c \in challenges : c.link_token = l /\ ~c.used /\ c.expires_at > now}

\* C37: with the statements of concurrent /challenge_request calls for one
\* identity interleaved, its outstanding challenges exceed the cap of 5 by at
\* most the number of calls that can be in flight together, less one
C37_BoundedOvershoot ==
    \A l \in RateLinks :
        Cardinality(OutstandingOf(l)) <= 5 + (Cardinality(Procs) - 1)

\* The cap is exceeded: six challenges are outstanding, the last two inserted by
\* calls that both counted four
C37_Witness ==
    \E l \in RateLinks :
        /\ Cardinality(OutstandingOf(l)) = 6
        /\ \E p \in Procs : pc[p] = "done" /\ resp[p].status = 200 /\ loc[p].cnt = 4

\* C38: a /request_message_permission from A to B that runs while the earlier
\* request of the pair is being accepted never inserts a new pending row for
\* (A, B) once the accepted record exists
C38_NoPendingBesideAccepted ==
    [][\A p \in Procs :
          (pc[p] = "rp_create" /\ pc'[p] # "rp_create") =>
              ~HasPermission(req[p].from_link_token, req[p].link_token)]_vars

\* A request that authenticated with a signed challenge
ChallengeAuthenticated(p) ==
    /\ req[p].ep \in AuthEndpoints
    /\ req[p].challenge # None /\ req[p].challenge_signature # NoSig
    /\ loc[p].authenticated

\* It was answered with a failure of the operation itself
FailedAfterChallenge(p) ==
    /\ ChallengeAuthenticated(p)
    /\ pc[p] = "done"
    /\ resp[p].status \in {400, 403, 404, 500}

\* The rows of the challenge the request presented
PresentedRows(p) ==
    {c \in challenges : c.link_token = req[p].link_token /\ c.challenge_nonce = req[p].challenge}

\* C39: a challenge whose signature verified is marked used before the requested
\* operation runs, so it is used while the operation runs and after it answered,
\* whatever the answer; a request that presents the nonce of a challenge-authenticated
\* request that failed with 404, 403, 400 or 500 is refused with 401
C39_ConsumedBeforeOperation ==
    /\ [](\A p \in Procs :
             (ChallengeAuthenticated(p) /\ pc[p] # "auth_mark_used") =>
                 \A c \in PresentedRows(p) : c.used)
    /\ [][\A p, q \in Procs :
             (/\ FailedAfterChallenge(p)
              /\ pc[q] = "auth_get_challenge" /\ pc'[q] # "auth_get_challenge"
              /\ req[q].link_token = req[p].link_token
              /\ req[q].challenge = req[p].challenge) =>
                 pc'[q] = "done" /\ resp'[q].status = 401]_vars

\* A response to a request that was processed already was answered 400; the retry
\* with the same nonce and signature was answered 401
C39_Witness ==
    \E p, q \in Procs :
        /\ FailedAfterChallenge(p) /\ req[p].ep = "respond_message_request"
        /\ resp[p] = Resp(400, "Request already processed")
        /\ PresentedRows(p) # {}
        /\ pc[q] = "done" /\ req[q] = req[p]
        /\ resp[q] = Resp(401, "Authentication failed")

\* The same after 404 Request not found
C39_NotFoundWitness ==
    \E p, q \in Procs :
        /\ FailedAfterChallenge(p) /\ resp[p].status = 404
        /\ PresentedRows(p) # {}
        /\ pc[q] = "done" /\ req[q] = req[p] /\ resp[q].status = 401

\* The same after 403: the request belongs to the other identity
C39_ForbiddenWitness ==
    \E p, q \in Procs :
        /\ FailedAfterChallenge(p) /\ resp[p].status = 403
        /\ PresentedRows(p) # {}
        /\ pc[q] = "done" /\ req[q] = req[p] /\ resp[q].status = 401

\* The same after the 500 of /fetch
C39_FetchWitness ==
    \E p, q \in Procs :
        /\ FailedAfterChallenge(p) /\ req[p].ep = "fetch" /\ resp[p].status = 500
        /\ PresentedRows(p) # {}
        /\ pc[q] = "done" /\ req[q] = req[p] /\ resp[q].status = 401

\* No challenge of the identity was issued during the last 300 seconds
QuietFor(l) == \A c \in issued : c.link_token = l => c.created_at + 300 <= now

IssueCall(p) == req[p].ep = "challenge_request" /\ req[p].link_token \in Registered

\* C40: a /challenge_request of a registered identity for which no challenge was
\* issued during the last 300 seconds passes both limits, and a call that passed
\* them is answered 200 with a new challenge; the cap only refuses when 5
\* challenges that are neither used nor expired exist
C40_NoPermanentLockout ==
    /\ [][\A p \in Procs :
             (/\ IssueCall(p) /\ QuietFor(req[p].link_token)
              /\ pc[p] \in {"cr_count", "cr_age"} /\ pc'[p] # pc[p]) =>
                 pc'[p] \in {"cr_age", "cr_create"}]_vars
    /\ [][\A p \in Procs :
             (IssueCall(p) /\ pc[p] \in {"cr_create", "cr_cleanup"} /\ pc'[p] = "done") =>
                 /\ resp'[p].status = 200
                 /\ \E c \in challenges' : /\ c.link_token = req[p].link_token
                                           /\ c.challenge_nonce = resp'[p].data
                                           /\ ~c.used /\ c.expires_at > now]_vars
    /\ [][\A p \in Procs :
             (IssueCall(p) /\ pc[p] = "cr_count" /\ pc'[p] = "done") =>
                 Cardinality(OutstandingOf(req[p].link_token)) >= 5]_vars

\* Five challenges were outstanding, 300 seconds passed since the last of them, and
\* the sixth call counted none and was answered 200
C40_Witness ==
    \E p \in Procs :
        /\ IssueCall(p) /\ pc[p] = "done" /\ resp[p].status = 200
        /\ loc[p].cnt = 0
        /\ Cardinality({c \in issued : /\ c.link_token = req[p].link_token
                                       /\ c.created_at + 300 <= now}) = 5
        /\ \A c \in challenges : ~c.used

\* The call succeeds while used challenges of the identity are still in the table
C40_UsedWitness ==
    \E p \in Procs :
        /\ IssueCall(p) /\ pc[p] = "done" /\ resp[p].status = 200
        /\ loc[p].cnt = 0
        /\ \E c \in challenges : c.link_token = req[p].link_token /\ c.used /\ c.expires_at > now
====
